---- MODULE Spec2Model ----
(***************************************************************************)
(* Model of the trading engine of contact1979/CycloneNew:                  *)
(*   src/hydrobot/trading/position_manager.py  Position / PositionManager  *)
(*   src/hydrobot/trading/risk_controller.py   RiskController              *)
(*   src/hydrobot/trading/trading_utils.py     order formatting            *)
(*   src/hydrobot/trading/order_executor.py    OrderExecutor               *)
(*   src/trader.py                             TradingManager              *)
(*                                                                         *)
(* Numbers.  Floats are exact rationals counted in units of 5e-10, so that *)
(* the tolerance 1e-9 of Position.update_position is Eps = 2 units and a   *)
(* "dust" remainder of one unit is representable.  Position.quantity is    *)
(* an integer number of units, average_entry_price a rational [n, d] in    *)
(* lowest terms.  A float or None that the code tests with isnan / isinf / *)
(* is None is a record [t, n, d] with t one of num, nan, inf, none.        *)
(*                                                                         *)
(* Field names.  The spec's size / entry_price are the code's              *)
(* Position.quantity / Position.average_entry_price: these are the fields  *)
(* that update_position writes, that get_position_size and the risk        *)
(* controller read and that tests/test_core.py asserts on.  The dataclass  *)
(* also declares size and entry_price, which update_position_on_fill       *)
(* never writes; they are not part of the model.                           *)
(***************************************************************************)
EXTENDS Integers, Sequences, FiniteSets, TLC

\* ------------------------------------------------------------------------
\* Bounds of the model
\* ------------------------------------------------------------------------
Symbols == {"s1", "s2"}

MaxQty == 2

MaxPrice == 2

MaxFills == 3

MaxTime == 1

MaxCycles == 2

MaxBook == 8

MaxValue == 20

ValueSpan == 2

MaxExcess == 3

MaxStep == 3

\* the steps a Decimal result may hold: 10^28 - 1 in the default context of
\* the decimal module, scaled down for the model
MaxQuanta == 6

\* instances made for one symbol
MaxInstances == 3

\* largest available_capital of a PortfolioManager
MaxCapital == 8

\* the tolerance 1e-9 of update_position, in quantity units of 5e-10
Eps == 2

\* the bound 1e-9 on risk_per_unit of validate_trade, in the same units
RiskEps == 2

FillQtys == (0 - 2 * MaxQty) .. (2 * MaxQty)

Prices == 1 .. MaxPrice

Times == 1 .. MaxTime

\* ------------------------------------------------------------------------
\* Exact rationals
\* ------------------------------------------------------------------------
Abs(x) == IF x < 0 THEN 0 - x ELSE x

RECURSIVE Gcd(_, _)
Gcd(a, b) == IF b = 0 THEN a ELSE Gcd(b, a % b)

\* the rational n/d (d # 0) in lowest terms with a positive denominator
Rat(n, d) ==
    LET g == Gcd(Abs(n), Abs(d))
        sg == IF d < 0 THEN 0 - 1 ELSE 1
    IN  [n |-> (sg * n) \div g, d |-> (sg * d) \div g]

RatInt(k) == [n |-> k, d |-> 1]

Zero == RatInt(0)

RatEq(a, b) == a.n * b.d = b.n * a.d

RatLess(a, b) == a.n * b.d < b.n * a.d

RatLessEq(a, b) == a.n * b.d <= b.n * a.d

RatAdd(a, b) == Rat(a.n * b.d + b.n * a.d, a.d * b.d)

RatSub(a, b) == Rat(a.n * b.d - b.n * a.d, a.d * b.d)

RatMul(a, b) == Rat(a.n * b.n, a.d * b.d)

\* a / b for b # 0
RatDiv(a, b) == Rat(a.n * b.d, a.d * b.n)

RatAbs(a) == [n |-> Abs(a.n), d |-> a.d]

\* the float x (a number) as a rational
RatOf(x) == Rat(x.n, x.d)


\* ------------------------------------------------------------------------
\* Python float / None values that the code tests with isnan, isinf, is None
\* ------------------------------------------------------------------------
Num(v) == [t |-> "num", n |-> v, d |-> 1]

NumR(r) == [t |-> "num", n |-> r.n, d |-> r.d]

NaN == [t |-> "nan", n |-> 0, d |-> 1]

Inf == [t |-> "inf", n |-> 0, d |-> 1]

None == [t |-> "none", n |-> 0, d |-> 1]

IsNum(x) == x.t = "num"

IsNaN(x) == x.t = "nan"

IsInf(x) == x.t = "inf"

IsNone(x) == x.t = "none"

\* Python truth value of an optional float: None and 0 are false
Truthy(x) == IsNaN(x) \/ IsInf(x) \/ (IsNum(x) /\ x.n # 0)

\* x > 0 as Python evaluates it on a float: false for NaN, true for +inf
Positive(x) == IsInf(x) \/ (IsNum(x) /\ x.n > 0)

\* a <= b on floats that are numbers or +inf
LessEq(a, b) ==
    IF IsInf(a) THEN IsInf(b)
    ELSE IF IsInf(b) THEN TRUE
    ELSE a.n * b.d <= b.n * a.d

VARIABLES
    positions,          \* PositionManager.positions: symbol -> Position
    redis,              \* PositionManager.redis_client and the keys it holds
    latest_prices,      \* TradingManager.latest_prices (None: no entry)
    latest_market_data, \* TradingManager.latest_market_data (None: no entry)
    tasks,              \* TradingManager._tasks: key -> state of the task
    feed_idx,           \* simulate_data: index of the next symbol to feed
    is_running,         \* TradingManager.is_running
    executor,           \* OrderExecutor: exchange object, is_initialized
    risk,               \* RiskController: peak value and halt flag
    cyc,                \* the calls of _run_trade_cycle, by call number
    nfills,             \* number of calls of update_position_on_fill
    last,               \* history: the last call of update_position_on_fill
    run,                \* history: per symbol, the fills since it was flat
    olog,               \* history: submissions completed / fills applied
    seen,               \* history: the largest portfolio value observed, or 0
    active_strategy_instances, \* StrategyManager: symbol -> instance
    ev                  \* history: the last operation and its outcome

posVars == <<positions, redis, nfills, last, run>>

cycleVars == <<risk, cyc, olog, seen, active_strategy_instances>>

engineVars == <<latest_prices, latest_market_data, tasks, feed_idx,
                is_running, executor>>

vars == <<positions, redis, latest_prices, latest_market_data, tasks, feed_idx,
          is_running, executor, risk, cyc, nfills, last, run, olog, seen,
          active_strategy_instances, ev>>

\* ------------------------------------------------------------------------
\* Position (position_manager.py)
\* ------------------------------------------------------------------------
NewPosition ==
    [quantity |-> 0, average_entry_price |-> Zero,
     realized_pnl |-> 0, last_update_time |-> 0]

\* mutant: the close leaves the average entry price behind
ClosePosition_KeepsAverage(p) ==
    [p EXCEPT !.quantity = 0]

\* branch "closing out the position exactly"
ClosePosition(p) ==
    [p EXCEPT !.quantity = 0, !.average_entry_price = Zero]

\* mutant: the average is the plain mean of the old average and the fill price
AddToPosition_Unweighted(p, fq, fp) ==
    LET new_quantity == p.quantity + fq
    IN  [p EXCEPT
           !.average_entry_price =
               IF p.quantity = 0 THEN RatInt(fp)
               ELSE Rat(p.average_entry_price.n + fp * p.average_entry_price.d,
                        2 * p.average_entry_price.d),
           !.quantity = new_quantity]

\* branch "opening or adding to position"
AddToPosition(p, fq, fp) ==
    LET old_value == [n |-> p.quantity * p.average_entry_price.n,
                      d |-> p.average_entry_price.d]
        new_value == fq * fp
        new_quantity == p.quantity + fq
    IN  [p EXCEPT
           !.average_entry_price =
               IF new_quantity # 0
               THEN Rat(old_value.n + new_value * old_value.d,
                        old_value.d * new_quantity)
               ELSE Zero,
           !.quantity = new_quantity]

\* mutant: a reduction takes the fill price as the new average entry price
ReduceOrFlip_ResetsAverage(p, fq, fp) ==
    [p EXCEPT !.average_entry_price =
                  IF Abs(p.quantity + fq) < Eps THEN Zero ELSE RatInt(fp),
              !.quantity = p.quantity + fq]

\* mutant: a flip keeps the average entry price of the closed side
ReduceOrFlip_KeepsAverage(p, fq, fp) ==
    [p EXCEPT !.quantity = p.quantity + fq]

\* branch "reducing or flipping position"
ReduceOrFlip(p, fq, fp) ==
    LET new_quantity == p.quantity + fq
        avg == IF (p.quantity > 0 /\ new_quantity < 0)
                  \/ (p.quantity < 0 /\ new_quantity > 0)
               THEN RatInt(fp)
               ELSE IF Abs(new_quantity) < Eps
                    THEN Zero
                    ELSE p.average_entry_price
    IN  [p EXCEPT !.average_entry_price = avg, !.quantity = new_quantity]

\* Position.update_position; fq and fp are floats (never None)
UpdatePosition(p, fq, fp, ts) ==
    IF IsNaN(fq) \/ IsNaN(fp) \/ IsInf(fq) \/ IsInf(fp)
    THEN p
    ELSE LET q == IF Abs(p.quantity + fq.n) < Eps
                  THEN ClosePosition(p)
                  ELSE IF (p.quantity >= 0 /\ fq.n > 0)
                          \/ (p.quantity <= 0 /\ fq.n < 0)
                       THEN AddToPosition(p, fq.n, fp.n)
                       ELSE ReduceOrFlip(p, fq.n, fp.n)
         IN  [q EXCEPT !.last_update_time = ts]

GetPositionSize(pos, s) ==
    IF s \in DOMAIN pos THEN pos[s].quantity ELSE 0

\* mutant: the entries of the other symbols that are flat are removed
UpdatePositionOnFill_DropsFlat(pos, s, fq, fp, ts) ==
    LET withEntry == IF s \in DOMAIN pos THEN pos
                     ELSE [x \in DOMAIN pos \cup {s} |->
                             IF x = s THEN NewPosition ELSE pos[x]]
        done == [withEntry EXCEPT ![s] = UpdatePosition(withEntry[s], fq, fp, ts)]
    IN  [x \in {y \in DOMAIN done : y = s \/ done[y].quantity # 0} |->
            done[x]]

\* PositionManager.update_position_on_fill: the positions after the call
\* (the entry of s is created before the fill is validated)
UpdatePositionOnFill(pos, s, fq, fp, ts) ==
    LET withEntry == IF s \in DOMAIN pos THEN pos
                     ELSE [x \in DOMAIN pos \cup {s} |->
                             IF x = s THEN NewPosition ELSE pos[x]]
    IN  [withEntry EXCEPT ![s] = UpdatePosition(withEntry[s], fq, fp, ts)]

\* a timestamp that is NaN, and the None that replaces it
NaNTime == 0 - 1

NoTime == 0 - 2

\* no client: redis is not configured or the connection failed
NoRedis == [client |-> FALSE, store |-> << >>]

\* the loop of _save_position_to_redis over position.__dict__, which is the
\* dictionary of the live object: a NaN or infinite float field becomes None
\* in memory as well (quantity and average_entry_price are always finite)
StoreAsNone(p) ==
    [p EXCEPT !.last_update_time = IF @ = NaNTime THEN NoTime ELSE @]

\* mutant: a failed write is raised to the caller
SavePositionToRedis_Raises(rds, s, p, write_ok) ==
    IF ~rds.client
    THEN [redis |-> rds, position |-> p, raised |-> FALSE]
    ELSE [redis |-> IF write_ok
                    THEN [rds EXCEPT !.store =
                             [x \in DOMAIN rds.store \cup {s} |->
                                 IF x = s THEN StoreAsNone(p)
                                 ELSE rds.store[x]]]
                    ELSE rds,
          position |-> StoreAsNone(p),
          raised |-> ~write_ok]

\* _save_position_to_redis(position): returns at once without a client;
\* otherwise replaces NaN/inf by None, serializes and sets the key of the
\* symbol; whatever dumps or set raises is logged, not raised
SavePositionToRedis(rds, s, p, write_ok) ==
    IF ~rds.client
    THEN [redis |-> rds, position |-> p, raised |-> FALSE]
    ELSE [redis |-> IF write_ok
                    THEN [rds EXCEPT !.store =
                             [x \in DOMAIN rds.store \cup {s} |->
                                 IF x = s THEN StoreAsNone(p)
                                 ELSE rds.store[x]]]
                    ELSE rds,
          position |-> StoreAsNone(p),
          raised |-> FALSE]

\* update_position_on_fill with its save: the positions and the store it
\* leaves, and whether it raised
UpdateAndSave(pos, rds, s, fq, fp, ts, write_ok) ==
    LET updated == UpdatePositionOnFill(pos, s, fq, fp, ts)
        saved == SavePositionToRedis(rds, s, updated[s], write_ok)
    IN  [positions |-> [updated EXCEPT ![s] = saved.position],
         redis |-> saved.redis,
         raised |-> saved.raised]

\* ------------------------------------------------------------------------
\* History of the fills of one symbol since it was last flat
\* ------------------------------------------------------------------------
NoRun == [dir |-> 0, sumQ |-> 0, sumQP |-> 0, first |-> 0]

Sign(x) == IF x > 0 THEN 1 ELSE IF x < 0 THEN 0 - 1 ELSE 0

\* dir = 1 / -1: only buys / only sells since flat; dir = 2: mixed
RunAfter(r, oldq, fq, fp) ==
    IF ~(IsNum(fq) /\ IsNum(fp))
    THEN [r EXCEPT !.dir = 2]
    ELSE IF oldq = 0
    THEN [dir |-> IF fq.n = 0 THEN 2 ELSE Sign(fq.n), sumQ |-> fq.n,
          sumQP |-> fq.n * fp.n, first |-> fq.n]
    ELSE IF r.dir = Sign(fq.n) /\ r.dir # 0
         THEN [r EXCEPT !.sumQ = r.sumQ + fq.n,
                        !.sumQP = r.sumQP + fq.n * fp.n]
         ELSE [r EXCEPT !.dir = 2]

\* the call update_position_on_fill(s, fq, fp, ts) and the position before it
LastOf(pos, s, fq, fp, ts) ==
    [sym |-> s, valid |-> IsNum(fq) /\ IsNum(fp),
     fq |-> fq.n, fp |-> fp.n, ts |-> ts,
     oldq |-> GetPositionSize(pos, s),
     oldavg |-> IF s \in DOMAIN pos THEN pos[s].average_entry_price ELSE Zero,
     before |-> pos]

NoLast == [sym |-> "None", valid |-> FALSE, fq |-> 0, fp |-> 0, ts |-> 0,
           oldq |-> 0, oldavg |-> Zero, before |-> << >>]

\* the position that the last call of update_position_on_fill left
LastPos == positions[last.sym]

\* the largest value observed so far after the observation of v (m before)
SeenAfter(m, v) ==
    IF IsNum(v) /\ RatLess(m, RatOf(v)) THEN RatOf(v) ELSE m

\* ------------------------------------------------------------------------
\* Configuration (config/settings.py): TradingSettings.max_open_positions,
\* RiskSettings.max_drawdown_pct (default 0.1) and max_risk_per_trade_pct.
\* The limit on open positions and the risk fraction are settings; they are
\* set to values that the small quantities of the model can exceed.
\* ------------------------------------------------------------------------
Config ==
    [max_open_positions |-> 1,
     max_drawdown_pct |-> Rat(1, 10),
     max_risk_per_trade_pct |-> Rat(1, 2)]

\* ------------------------------------------------------------------------
\* PositionManager.get_total_portfolio_value
\* ------------------------------------------------------------------------
RECURSIVE SumPositionValues(_, _, _)
SumPositionValues(S, pos, prices) ==
    IF S = {} THEN Zero
    ELSE LET s == CHOOSE x \in S : TRUE
             current_price == prices[s]
             rest == SumPositionValues(S \ {s}, pos, prices)
         IN  IF pos[s].quantity # 0 /\ IsNum(current_price)
             THEN RatAdd(rest, RatMul(RatInt(pos[s].quantity),
                                      RatOf(current_price)))
             ELSE rest

\* mutant: short positions are left out of the sum
GetTotalPortfolioValue_LongOnly(pos, prices) ==
    SumPositionValues({s \in DOMAIN pos : pos[s].quantity > 0}, pos, prices)

GetTotalPortfolioValue(pos, prices) ==
    SumPositionValues(DOMAIN pos, pos, prices)

\* ------------------------------------------------------------------------
\* RiskController (risk_controller.py)
\* ------------------------------------------------------------------------
\* a controller that halts only above the maximum drawdown
UpdatePortfolioValue_StrictThreshold(rk, current_value) ==
    IF IsNaN(current_value) \/ IsInf(current_value)
    THEN rk
    ELSE LET v == RatOf(current_value)
             peak == IF RatLess(rk.portfolio_peak_value, v)
                     THEN v ELSE rk.portfolio_peak_value
             drawdown_pct == RatDiv(RatSub(peak, v), peak)
             halted ==
                 IF ~RatLess(Zero, peak) THEN rk.is_trading_halted
                 ELSE IF RatLess(Config.max_drawdown_pct, drawdown_pct)
                      THEN TRUE
                      ELSE IF rk.is_trading_halted
                              /\ RatLess(drawdown_pct,
                                         RatDiv(Config.max_drawdown_pct,
                                                RatInt(2)))
                           THEN FALSE
                           ELSE rk.is_trading_halted
         IN  [portfolio_peak_value |-> peak, is_trading_halted |-> halted]

\* a controller that resumes as soon as the drawdown is below the maximum
UpdatePortfolioValue_NoHysteresis(rk, current_value) ==
    IF IsNaN(current_value) \/ IsInf(current_value)
    THEN rk
    ELSE LET v == RatOf(current_value)
             peak == IF RatLess(rk.portfolio_peak_value, v)
                     THEN v ELSE rk.portfolio_peak_value
             drawdown_pct == RatDiv(RatSub(peak, v), peak)
             halted ==
                 IF ~RatLess(Zero, peak) THEN rk.is_trading_halted
                 ELSE IF RatLessEq(Config.max_drawdown_pct, drawdown_pct)
                      THEN TRUE
                      ELSE IF rk.is_trading_halted
                              /\ RatLess(drawdown_pct,
                                         Config.max_drawdown_pct)
                           THEN FALSE
                           ELSE rk.is_trading_halted
         IN  [portfolio_peak_value |-> peak, is_trading_halted |-> halted]

\* a controller whose peak is the last value observed
UpdatePortfolioValue_PeakFollowsValue(rk, current_value) ==
    IF IsNaN(current_value) \/ IsInf(current_value)
    THEN rk
    ELSE LET v == RatOf(current_value)
             peak == v
             drawdown_pct == RatDiv(RatSub(peak, v), peak)
             halted ==
                 IF ~RatLess(Zero, peak) THEN rk.is_trading_halted
                 ELSE IF RatLessEq(Config.max_drawdown_pct, drawdown_pct)
                      THEN TRUE
                      ELSE IF rk.is_trading_halted
                              /\ RatLess(drawdown_pct,
                                         RatDiv(Config.max_drawdown_pct,
                                                RatInt(2)))
                           THEN FALSE
                           ELSE rk.is_trading_halted
         IN  [portfolio_peak_value |-> peak, is_trading_halted |-> halted]

\* a controller that resumes trading on an invalid value
UpdatePortfolioValue_InvalidResumes(rk, current_value) ==
    IF IsNaN(current_value) \/ IsInf(current_value)
    THEN [rk EXCEPT !.is_trading_halted = FALSE]
    ELSE LET v == RatOf(current_value)
             peak == IF RatLess(rk.portfolio_peak_value, v)
                     THEN v ELSE rk.portfolio_peak_value
             drawdown_pct == RatDiv(RatSub(peak, v), peak)
             halted ==
                 IF ~RatLess(Zero, peak) THEN rk.is_trading_halted
                 ELSE IF RatLessEq(Config.max_drawdown_pct, drawdown_pct)
                      THEN TRUE
                      ELSE IF rk.is_trading_halted
                              /\ RatLess(drawdown_pct,
                                         RatDiv(Config.max_drawdown_pct,
                                                RatInt(2)))
                           THEN FALSE
                           ELSE rk.is_trading_halted
         IN  [portfolio_peak_value |-> peak, is_trading_halted |-> halted]

\* update_portfolio_value(current_value): the risk state after the call
UpdatePortfolioValue(rk, current_value) ==
    IF IsNaN(current_value) \/ IsInf(current_value)
    THEN rk
    ELSE LET v == RatOf(current_value)
             peak == IF RatLess(rk.portfolio_peak_value, v)
                     THEN v ELSE rk.portfolio_peak_value
             drawdown_pct == RatDiv(RatSub(peak, v), peak)
             halted ==
                 IF ~RatLess(Zero, peak) THEN rk.is_trading_halted
                 ELSE IF RatLessEq(Config.max_drawdown_pct, drawdown_pct)
                      THEN TRUE
                      ELSE IF rk.is_trading_halted
                              /\ RatLess(drawdown_pct,
                                         RatDiv(Config.max_drawdown_pct,
                                                RatInt(2)))
                           THEN FALSE
                           ELSE rk.is_trading_halted
         IN  [portfolio_peak_value |-> peak, is_trading_halted |-> halted]

\* RiskController.__init__
InitialRisk == [portfolio_peak_value |-> Zero, is_trading_halted |-> FALSE]

NoSignal ==
    [action |-> "None", symbol |-> "None", order_type |-> "None",
     quantity |-> None, price |-> None, stop_loss_price |-> None]

\* a check that rejects only above the limit
TooManyOpenPositions_OverLimit(pos, sig) ==
    LET open_positions == {s \in DOMAIN pos : Abs(pos[s].quantity) > Eps}
        current_position_size == GetPositionSize(pos, sig.symbol)
        is_opening_or_increasing_trade ==
            \/ current_position_size = 0 /\ sig.action \in {"BUY", "SELL"}
            \/ current_position_size > 0 /\ sig.action = "BUY"
            \/ current_position_size < 0 /\ sig.action = "SELL"
    IN  /\ is_opening_or_increasing_trade
        /\ sig.symbol \notin open_positions
        /\ Cardinality(open_positions) > Config.max_open_positions

\* "Check Max Open Positions": TRUE when the signal is rejected
TooManyOpenPositions(pos, sig) ==
    LET open_positions == {s \in DOMAIN pos : Abs(pos[s].quantity) > Eps}
        current_position_size == GetPositionSize(pos, sig.symbol)
        is_opening_or_increasing_trade ==
            \/ current_position_size = 0 /\ sig.action \in {"BUY", "SELL"}
            \/ current_position_size > 0 /\ sig.action = "BUY"
            \/ current_position_size < 0 /\ sig.action = "SELL"
    IN  /\ is_opening_or_increasing_trade
        /\ sig.symbol \notin open_positions
        /\ Cardinality(open_positions) >= Config.max_open_positions

\* a check that rejects every signal whose risk exceeds the limit
RiskPerTrade_RejectsOversized(sig, pv) ==
    IF ~(sig.action \in {"BUY", "SELL"} /\ ~IsNone(sig.stop_loss_price)
         /\ ~IsNone(sig.price) /\ ~IsNone(sig.quantity))
    THEN sig
    ELSE IF ~(IsNum(sig.stop_loss_price) /\ IsNum(sig.price)
              /\ IsNum(sig.quantity))
    THEN NoSignal
    ELSE IF RatLessEq(RatOf(pv), Zero)
    THEN sig
    ELSE LET risk_per_unit ==
                 RatAbs(RatSub(RatOf(sig.price), RatOf(sig.stop_loss_price)))
             total_risk_amount ==
                 RatMul(risk_per_unit, RatAbs(RatOf(sig.quantity)))
             risk_pct_of_portfolio == RatDiv(total_risk_amount, RatOf(pv))
         IN  IF ~RatLess(Config.max_risk_per_trade_pct, risk_pct_of_portfolio)
             THEN sig
             ELSE NoSignal

\* "Check Max Risk Per Trade": the signal after the check, NoSignal when it
\* is rejected.  pv is a finite number here.
RiskPerTrade(sig, pv) ==
    IF ~(sig.action \in {"BUY", "SELL"} /\ ~IsNone(sig.stop_loss_price)
         /\ ~IsNone(sig.price) /\ ~IsNone(sig.quantity))
    THEN sig
    ELSE IF ~(IsNum(sig.stop_loss_price) /\ IsNum(sig.price)
              /\ IsNum(sig.quantity))
    THEN NoSignal
    ELSE IF RatLessEq(RatOf(pv), Zero)
    THEN sig
    ELSE LET risk_per_unit ==
                 RatAbs(RatSub(RatOf(sig.price), RatOf(sig.stop_loss_price)))
             total_risk_amount ==
                 RatMul(risk_per_unit, RatAbs(RatOf(sig.quantity)))
             risk_pct_of_portfolio == RatDiv(total_risk_amount, RatOf(pv))
             allowed_risk_amount ==
                 RatMul(RatOf(pv), Config.max_risk_per_trade_pct)
         IN  IF ~RatLess(Config.max_risk_per_trade_pct, risk_pct_of_portfolio)
             THEN sig
             ELSE IF RatLess(RatInt(RiskEps), risk_per_unit)
                  THEN [sig EXCEPT !.quantity =
                           NumR(RatDiv(allowed_risk_amount, risk_per_unit))]
                  ELSE NoSignal

\* a validation that looks the symbol up in a store that creates missing
\* entries
StoreAfterValidate_CreatesEntry(pos, sig) ==
    IF sig.action = "HOLD" \/ sig.symbol = "None" \/ sig.symbol \in DOMAIN pos
    THEN pos
    ELSE [s \in DOMAIN pos \cup {sig.symbol} |->
             IF s \in DOMAIN pos THEN pos[s] ELSE NewPosition]

\* the store after validate_trade: get_all_positions and get_position_size
\* (a dict.get) read it, the open positions are collected in a new dict
StoreAfterValidate(pos, sig) == pos

\* validate_trade hands current_portfolio_value to update_portfolio_value
\* unless it returns before: for HOLD, a signal without symbol, or a value
\* that is NaN or infinite
Observes(sig, pv) ==
    ~(sig.action = "HOLD" \/ sig.symbol = "None") /\ IsNum(pv)

\* a validation without the check of the halt flag
ValidateTrade_IgnoresHalt(rk, pos, sig, pv) ==
    LET Checked(rk2) ==
            IF TooManyOpenPositions(pos, sig)
            THEN [risk |-> rk2, signal |-> NoSignal]
            ELSE [risk |-> rk2, signal |-> RiskPerTrade(sig, pv)]
    IN  IF sig.action = "HOLD" \/ sig.symbol = "None"
        THEN [risk |-> rk, signal |-> sig]
        ELSE IF IsNaN(pv) \/ IsInf(pv)
        THEN [risk |-> rk, signal |-> NoSignal]
        ELSE Checked(UpdatePortfolioValue(rk, pv))

\* a validation that lets only signals without symbol through unchecked
ValidateTrade_ChecksHold(rk, pos, sig, pv) ==
    LET Checked(rk2) ==
            IF rk2.is_trading_halted
            THEN [risk |-> rk2, signal |-> NoSignal]
            ELSE IF TooManyOpenPositions(pos, sig)
                 THEN [risk |-> rk2, signal |-> NoSignal]
                 ELSE [risk |-> rk2, signal |-> RiskPerTrade(sig, pv)]
    IN  IF sig.symbol = "None"
        THEN [risk |-> rk, signal |-> sig]
        ELSE IF IsNaN(pv) \/ IsInf(pv)
        THEN [risk |-> rk, signal |-> NoSignal]
        ELSE Checked(UpdatePortfolioValue(rk, pv))

\* a validation that tests the halt flag before it observes the value
ValidateTrade_TestsHaltFirst(rk, pos, sig, pv) ==
    LET Checked(rk2) ==
            IF rk.is_trading_halted
            THEN [risk |-> rk2, signal |-> NoSignal]
            ELSE IF TooManyOpenPositions(pos, sig)
                 THEN [risk |-> rk2, signal |-> NoSignal]
                 ELSE [risk |-> rk2, signal |-> RiskPerTrade(sig, pv)]
    IN  IF sig.action = "HOLD" \/ sig.symbol = "None"
        THEN [risk |-> rk, signal |-> sig]
        ELSE IF IsNaN(pv) \/ IsInf(pv)
        THEN [risk |-> rk, signal |-> NoSignal]
        ELSE Checked(UpdatePortfolioValue(rk, pv))

\* validate_trade(signal, current_portfolio_value, current_prices): the risk
\* state after the call and the signal returned (NoSignal for None)
ValidateTrade(rk, pos, sig, pv) ==
    LET Checked(rk2) ==
            IF rk2.is_trading_halted
            THEN [risk |-> rk2, signal |-> NoSignal]
            ELSE IF TooManyOpenPositions(pos, sig)
                 THEN [risk |-> rk2, signal |-> NoSignal]
                 ELSE [risk |-> rk2, signal |-> RiskPerTrade(sig, pv)]
    IN  IF sig.action = "HOLD" \/ sig.symbol = "None"
        THEN [risk |-> rk, signal |-> sig]
        ELSE IF IsNaN(pv) \/ IsInf(pv)
        THEN [risk |-> rk, signal |-> NoSignal]
        ELSE Checked(UpdatePortfolioValue(rk, pv))

\* ------------------------------------------------------------------------
\* Order formatting (trading_utils.py)
\* ------------------------------------------------------------------------
\* get_market_info(symbol) when the cache has no entry for the symbol
NoMarket ==
    [present |-> FALSE, amount |-> None, price |-> None,
     min_amount |-> None, min_cost |-> None]

\* n/d truncated towards zero to a multiple of step (Decimal ROUND_DOWN, //)
TruncToStep(r, step) ==
    IF r.n >= 0 THEN (r.n \div (r.d * step)) * step
    ELSE 0 - (((0 - r.n) \div (r.d * step)) * step)

\* round(x) of Python on a Decimal: to the nearest integer, ties to even
RoundHalfEven(r) ==
    LET fl == r.n \div r.d
        rem == r.n - fl * r.d
    IN  IF 2 * rem < r.d THEN fl
        ELSE IF 2 * rem > r.d THEN fl + 1
        ELSE IF fl % 2 = 0 THEN fl ELSE fl + 1

\* format_quantity; market.amount is the amount step (10^-places for a
\* precision in decimal places), None when unknown.  quantize and // raise
\* InvalidOperation when the number of steps needs more digits than the
\* context has, and the except clause turns that into None.
FormatQuantity(market, quantity) ==
    IF IsNaN(quantity) \/ IsInf(quantity) THEN None
    ELSE IF ~market.present \/ IsNone(market.amount) THEN quantity
    ELSE IF market.amount.n = 0 THEN quantity
    ELSE IF Abs(TruncToStep(RatOf(quantity), market.amount.n))
               > MaxQuanta * market.amount.n
    THEN None
    ELSE Num(TruncToStep(RatOf(quantity), market.amount.n))

\* a format_price that rounds down as format_quantity does
FormatPrice_RoundsDown(market, price) ==
    IF IsNaN(price) \/ IsInf(price) THEN None
    ELSE IF ~market.present \/ IsNone(market.price) THEN price
    ELSE IF market.price.n = 0 THEN price
    ELSE Num(TruncToStep(RatOf(price), market.price.n))

\* format_price; market.price is the price step, None when unknown
FormatPrice(market, price) ==
    IF IsNaN(price) \/ IsInf(price) THEN None
    ELSE IF ~market.present \/ IsNone(market.price) THEN price
    ELSE IF market.price.n = 0 THEN price
    ELSE Num(RoundHalfEven(RatDiv(RatOf(price), RatInt(market.price.n)))
             * market.price.n)

\* a check of the minimum amount alone
CheckMinOrderSize_AmountOnly(market, quantity, price) ==
    IF ~market.present THEN TRUE
    ELSE IF IsNaN(quantity) \/ IsInf(quantity) \/ IsNaN(price) \/ IsInf(price)
    THEN FALSE
    ELSE IF ~IsNone(market.min_amount)
            /\ RatLess(RatOf(quantity), RatOf(market.min_amount))
    THEN FALSE
    ELSE TRUE

\* check_min_order_size(symbol, quantity, price)
CheckMinOrderSize(market, quantity, price) ==
    IF ~market.present THEN TRUE
    ELSE IF IsNaN(quantity) \/ IsInf(quantity) \/ IsNaN(price) \/ IsInf(price)
    THEN FALSE
    ELSE IF ~IsNone(market.min_amount)
            /\ RatLess(RatOf(quantity), RatOf(market.min_amount))
    THEN FALSE
    ELSE IF ~IsNone(market.min_cost) /\ ~IsNone(price) /\ Positive(price)
            /\ RatLess(RatMul(RatOf(quantity), RatOf(price)),
                       RatOf(market.min_cost))
    THEN FALSE
    ELSE TRUE

\* ------------------------------------------------------------------------
\* PortfolioManager.get_trade_quantity (portfolio.py)
\* ------------------------------------------------------------------------
\* 1e-8, the last decimal place kept by round(raw_quantity, 8), in the units
\* of the quantities: larger than every amount step of a market on which
\* format_quantity can fail on a finite quantity
RoundQuantum == MaxStep + 1

\* round(x, 8) of Python on a float: to the nearest multiple of 1e-8, ties
\* to even; NaN stays NaN
RoundToPlaces(x) ==
    IF ~IsNum(x) THEN x
    ELSE Num(RoundHalfEven(RatDiv(RatOf(x), RatInt(RoundQuantum)))
             * RoundQuantum)

\* trade_capital / current_price for a current_price that is not <= 0
RawQuantity(available_capital, current_price, capital_percentage) ==
    IF IsNaN(current_price) THEN NaN
    ELSE IF IsInf(current_price) THEN Num(0)
    ELSE NumR(RatDiv(RatMul(RatOf(available_capital),
                            RatOf(capital_percentage)),
                     RatOf(current_price)))

\* get_trade_quantity(symbol, current_price, capital_percentage) of a
\* PortfolioManager with the given available_capital; market is the cached
\* market of the symbol
GetTradeQuantity(market, available_capital, current_price, capital_percentage) ==
    IF IsNum(current_price) /\ current_price.n <= 0 THEN Num(0)
    ELSE LET raw_quantity == RawQuantity(available_capital, current_price,
                                         capital_percentage)
             formatted == FormatQuantity(market, raw_quantity)
             formatted_qty == IF IsNone(formatted)
                              THEN RoundToPlaces(raw_quantity)
                              ELSE formatted
         IN  IF ~CheckMinOrderSize(market, formatted_qty, current_price)
             THEN Num(0)
             ELSE formatted_qty

\* ------------------------------------------------------------------------
\* OrderExecutor.execute_signal (order_executor.py)
\* ------------------------------------------------------------------------
NoOrder ==
    [status |-> "None", side |-> "None", filled |-> Num(0),
     average |-> None, timestamp |-> 0]

\* the simulated placement, up to "await asyncio.sleep(0.1)": the order
\* result is fixed before the call is suspended
SimulateOrder(sig, current_price, ts) ==
    LET side == IF sig.action = "BUY" THEN "buy" ELSE "sell"
        amount == sig.quantity
        price == IF sig.order_type = "LIMIT" THEN sig.price ELSE None
        fills ==
            IF sig.order_type = "LIMIT"
            THEN /\ Truthy(current_price)
                 /\ ~IsNaN(current_price)
                 /\ \/ side = "buy" /\ LessEq(current_price, price)
                    \/ side = "sell" /\ LessEq(price, current_price)
            ELSE IF sig.order_type = "MARKET"
                 THEN Truthy(current_price)
                 ELSE FALSE
    IN  IF fills
        THEN [status |-> "closed", side |-> side, filled |-> amount,
              average |-> current_price, timestamp |-> ts]
        ELSE [status |-> "open", side |-> side, filled |-> Num(0),
              average |-> price, timestamp |-> ts]

\* execute_signal up to its suspension: what the call does ("raise",
\* "return_none" or "await") and the order result it holds while suspended
ExecuteSignalSubmit(ex, sig, prices, ts) ==
    IF ~ex.is_initialized \/ ~ex.exchange
    THEN [does |-> "raise", order |-> NoOrder]
    ELSE IF sig.action = "HOLD" \/ IsNone(sig.quantity)
            \/ (IsNum(sig.quantity) /\ sig.quantity.n <= 0)
            \/ sig.symbol = "None"
    THEN [does |-> "return_none", order |-> NoOrder]
    ELSE IF IsNaN(sig.quantity) \/ IsInf(sig.quantity)
            \/ (sig.order_type = "LIMIT"
                /\ (IsNaN(sig.price) \/ IsInf(sig.price)))
    THEN [does |-> "raise", order |-> NoOrder]
    ELSE IF sig.order_type = "LIMIT" /\ IsNone(sig.price)
    THEN [does |-> "raise", order |-> NoOrder]
    ELSE [does |-> "await",
          order |-> SimulateOrder(sig, prices[sig.symbol], ts)]

\* mutant: the fill of a sell is handed over with a positive quantity
ProcessFill_Unsigned(sym, order) ==
    IF order.status = "closed" /\ Positive(order.filled)
    THEN << [sym |-> sym,
             qty |-> order.filled,
             price |-> order.average,
             ts |-> order.timestamp] >>
    ELSE << >>

\* "Process Fill": the fill that execute_signal hands to
\* update_position_on_fill once the placement has returned, as a sequence
\* of at most one call [sym, qty, price, ts]
ProcessFill(sym, order) ==
    IF order.status = "closed" /\ Positive(order.filled)
    THEN << [sym |-> sym,
             qty |-> IF order.side = "buy" THEN order.filled
                     ELSE [order.filled EXCEPT !.n = 0 - order.filled.n],
             price |-> order.average,
             ts |-> order.timestamp] >>
    ELSE << >>

\* mutant: the fill is applied as soon as the order result is simulated,
\* before the placement has returned
FillBeforeConfirmation_Speculative(sym, order) ==
    ProcessFill(sym, order)

\* execute_signal makes no call of update_position_on_fill between building
\* order_result and "await asyncio.sleep(0.1)"
FillBeforeConfirmation(sym, order) == << >>

\* ------------------------------------------------------------------------
\* StrategyManager (strategy_manager.py)
\* ------------------------------------------------------------------------
\* the strategy classes of the package.  The constructor's discovery uses os,
\* which the module does not import, and raises NameError: a manager exists
\* only where available_strategies has been set by other means
AvailableStrategies ==
    {"ScalpingStrategy", "MomentumStrategy", "MeanReversionStrategy",
     "VWAPStrategy"}

\* an instance of class cls, the gen-th one made for its symbol; NoInstance:
\* the symbol has no entry
NoInstance == [cls |-> "None", gen |-> 0]

\* regime_mapping of the settings
DefaultMapping == [default |-> "ScalpingStrategy"]

\* dict.get followed by "if not": a missing key and an empty name are alike
MappedName(mapping, regime) ==
    IF regime \in DOMAIN mapping THEN mapping[regime] ELSE ""

\* _get_strategy_class_for_regime: the mapped name, else the name mapped to
\* "default"; "None" without a name or without a class of that name
GetStrategyClassForRegime(mapping, regime) ==
    LET name == IF MappedName(mapping, regime) # ""
                THEN MappedName(mapping, regime)
                ELSE MappedName(mapping, "default")
    IN  IF name \in AvailableStrategies THEN name ELSE "None"

\* mutant: an existing instance is returned whatever its class
GetStrategyForSymbol_KeepsExisting(instances, s, regime, mapping, inst_ok) ==
    LET required == GetStrategyClassForRegime(mapping, regime)
        existing == instances[s]
        made == [cls |-> required, gen |-> existing.gen + 1]
    IN  IF required = "None"
        THEN [instances |-> instances, returned |-> NoInstance]
        ELSE IF existing # NoInstance
        THEN [instances |-> instances, returned |-> existing]
        ELSE IF inst_ok
        THEN [instances |-> [instances EXCEPT ![s] = made],
              returned |-> made]
        ELSE [instances |-> instances, returned |-> NoInstance]

\* get_strategy_for_symbol(symbol, market_regime); inst_ok: the constructor
\* of the class and set_symbol do not raise.  The strategy classes of the
\* package all derive from Strategy directly, so isinstance is equality of
\* classes
GetStrategyForSymbol(instances, s, regime, mapping, inst_ok) ==
    LET required == GetStrategyClassForRegime(mapping, regime)
        existing == instances[s]
        made == [cls |-> required, gen |-> existing.gen + 1]
    IN  IF required = "None"
        THEN [instances |-> instances, returned |-> NoInstance]
        ELSE IF existing # NoInstance /\ existing.cls = required
        THEN [instances |-> instances, returned |-> existing]
        ELSE IF inst_ok
        THEN [instances |-> [instances EXCEPT ![s] = made],
              returned |-> made]
        ELSE [instances |-> instances, returned |-> NoInstance]

\* ------------------------------------------------------------------------
\* TradingManager: market-data handler and lifecycle (trader.py)
\* ------------------------------------------------------------------------
NoData == [bid |-> None, ask |-> None, last_trade |-> None]

NoEvent == [kind |-> "init", sym |-> "None", data |-> NoData,
            idle |-> FALSE, raised |-> FALSE, id |-> 0,
            outcome |-> "None", action |-> "None", order_type |-> "None",
            validated |-> FALSE, quantity_formatted |-> FALSE,
            price_formatted |-> FALSE, size_valid |-> FALSE,
            submitted |-> FALSE, changed |-> FALSE,
            value |-> None, given |-> NoSignal, returned |-> NoSignal,
            risk_before |-> InitialRisk, positions_before |-> << >>,
            fn |-> "None", market |-> NoMarket, price |-> None,
            result |-> None, ok |-> FALSE, cancelled |-> {}, write |-> "None",
            regime |-> "None", mapping |-> << >>, strategy |-> NoInstance,
            strategy_before |-> NoInstance,
            capital |-> None, percentage |-> None,
            prices_before |-> << >>]

TaskDone(st) == st \in {"finished", "failed", "cancelled"}

\* the state after the constructors of PositionManager (no Redis),
\* RiskController, OrderExecutor and TradingManager
Construct ==
    /\ positions = << >>
    /\ redis = NoRedis
    /\ latest_prices = [s \in Symbols |-> None]
    /\ latest_market_data = [s \in Symbols |-> None]
    /\ tasks = << >>
    /\ feed_idx = 1
    /\ is_running = FALSE
    /\ executor = [exchange |-> FALSE, is_initialized |-> FALSE]
    /\ risk = InitialRisk
    /\ cyc = << >>
    /\ nfills = 0
    /\ last = NoLast
    /\ run = [s \in Symbols |-> NoRun]
    /\ olog = << >>
    /\ seen = Zero
    /\ active_strategy_instances = [s \in Symbols |-> NoInstance]
    /\ ev = NoEvent

\* (bids[0][0] + asks[0][0]) / 2
MidPrice(bid, ask) ==
    IF IsInf(bid) \/ IsInf(ask) THEN Inf
    ELSE NumR(Rat(bid.n * ask.d + ask.n * bid.d, 2 * bid.d * ask.d))

\* _handle_market_data_update, "Update latest price": the price recorded for
\* the symbol, or None when latest_prices is left as it is.  A bid or ask of
\* None stands for a missing or empty side or a non-numeric best price.
PriceToRecord(data) ==
    IF ~IsNone(data.bid) /\ ~IsNone(data.ask)
       /\ ~IsNaN(data.bid) /\ ~IsNaN(data.ask)
    THEN LET mid_price == MidPrice(data.bid, data.ask)
         IN  IF Positive(mid_price) /\ ~IsInf(mid_price)
             THEN mid_price ELSE None
    ELSE IF Truthy(data.last_trade) /\ ~IsNone(data.last_trade)
            /\ ~IsNaN(data.last_trade) /\ Positive(data.last_trade)
         THEN data.last_trade ELSE None

\* trader.py line 70, reached when the symbol has no task or a finished one:
\*   self._tasks[symbol] =
\*       asyncio.create_task(self._run_trade_cycle(symbol, market_data.copy()))
\* The argument market_data.copy() is evaluated before _run_trade_cycle and
\* create_task are called.  The handler's parameter is named data and the
\* module binds no name market_data, so the evaluation raises NameError: no
\* coroutine is made, no task is created and _tasks is not assigned.
StartCycleTask(tk, s, data) ==
    [raised |-> TRUE, tasks |-> tk]

\* "Trigger Trading Logic if not already running for this symbol"
SymbolIdle(tk, s) == s \notin DOMAIN tk \/ TaskDone(tk[s])

\* _handle_market_data_update(symbol, data): the new latest_market_data and
\* latest_prices, the new _tasks, and whether the call raised
HandleMarketDataUpdate(tk, lmd, lp, s, data) ==
    LET rec == PriceToRecord(data)
        start == IF SymbolIdle(tk, s)
                 THEN StartCycleTask(tk, s, data)
                 ELSE [raised |-> FALSE, tasks |-> tk]
    IN  [latest_market_data |-> [lmd EXCEPT ![s] = data],
         latest_prices |-> IF IsNone(rec) THEN lp ELSE [lp EXCEPT ![s] = rec],
         tasks |-> start.tasks,
         raised |-> start.raised]

TradingSymbols == <<"s1", "s2">>

SetTask(tk, key, st) ==
    [k \in DOMAIN tk \cup {key} |-> IF k = key THEN st ELSE tk[k]]

\* a start() that goes on after initialize_exchange has failed
Start_IgnoresFailure(ok) ==
    /\ ~is_running
    /\ is_running' = TRUE
    /\ executor' = [exchange |-> ok, is_initialized |-> ok]
    /\ tasks' = SetTask(tasks, "data_simulator", "pending")
    /\ feed_idx' = 1
    /\ ev' = [NoEvent EXCEPT !.kind = "start", !.raised = ~ok]
    /\ UNCHANGED <<latest_prices, latest_market_data, posVars, cycleVars>>

\* start(): ok is the outcome of initialize_exchange
Start(ok) ==
    /\ ~is_running
    /\ IF ok
       THEN /\ is_running' = TRUE
            /\ executor' = [exchange |-> TRUE, is_initialized |-> TRUE]
            /\ tasks' = SetTask(tasks, "data_simulator", "pending")
            /\ feed_idx' = 1
       ELSE /\ is_running' = FALSE
            /\ executor' = [exchange |-> FALSE, is_initialized |-> FALSE]
            /\ UNCHANGED <<tasks, feed_idx>>
    /\ ev' = [NoEvent EXCEPT !.kind = "start", !.raised = ~ok]
    /\ UNCHANGED <<latest_prices, latest_market_data, posVars, cycleVars>>

\* one iteration of the for loop of simulate_data: the handler is awaited
\* inside the feed task, with nothing to catch what it raises
FeedUpdate(data) ==
    /\ "data_simulator" \in DOMAIN tasks
    /\ tasks["data_simulator"] = "pending"
    /\ LET s == TradingSymbols[feed_idx]
           h == HandleMarketDataUpdate(tasks, latest_market_data,
                                       latest_prices, s, data)
       IN  /\ latest_market_data' = h.latest_market_data
           /\ latest_prices' = h.latest_prices
           /\ IF h.raised
              THEN /\ tasks' = [h.tasks EXCEPT !["data_simulator"] = "failed"]
                   /\ feed_idx' = feed_idx
              ELSE /\ tasks' = h.tasks
                   /\ feed_idx' = IF feed_idx = Len(TradingSymbols)
                                  THEN 1 ELSE feed_idx + 1
           /\ ev' = [NoEvent EXCEPT !.kind = "update", !.sym = s,
                                    !.data = data,
                                    !.idle = SymbolIdle(tasks, s),
                                    !.raised = h.raised]
    /\ UNCHANGED <<is_running, executor, posVars, cycleVars>>

\* tasks_to_cancel of stop()
TasksToCancel(tk) == {k \in DOMAIN tk : ~TaskDone(tk[k])}

\* a stop() that neither cancels nor forgets its tasks
Stop_KeepsTasks ==
    /\ is_running
    /\ is_running' = FALSE
    /\ tasks' = tasks
    /\ executor' = [exchange |-> FALSE, is_initialized |-> FALSE]
    /\ ev' = [NoEvent EXCEPT !.kind = "stop"]
    /\ UNCHANGED <<latest_prices, latest_market_data, feed_idx, posVars,
                   cycleVars>>

\* stop(): cancels every task of _tasks that is not done, awaits them,
\* closes the executor, clears _tasks
Stop ==
    /\ is_running
    /\ is_running' = FALSE
    /\ tasks' = << >>
    /\ executor' = [exchange |-> FALSE, is_initialized |-> FALSE]
    /\ ev' = [NoEvent EXCEPT !.kind = "stop",
                             !.cancelled = TasksToCancel(tasks)]
    /\ UNCHANGED <<latest_prices, latest_market_data, feed_idx, posVars,
                   cycleVars>>

\* fake_data of simulate_data: price is finite and positive, the spread is
\* at least 1.0, bid = price - spread / 2, ask = price + spread / 2 and
\* last_trade = price
FeedBooks == {p \in (1 .. MaxBook) \X (1 .. MaxBook) : p[1] < p[2]}

FeedData ==
    {[bid |-> Num(p[1]), ask |-> Num(p[2]),
      last_trade |-> NumR(Rat(p[1] + p[2], 2))] : p \in FeedBooks}

\* ------------------------------------------------------------------------
\* Specification Spec: the engine as main.py runs it
\* ------------------------------------------------------------------------
Init == Construct

Next ==
    \/ \E ok \in BOOLEAN : Start(ok)
    \/ \E data \in FeedData : FeedUpdate(data)
    \/ Stop

Spec == Init /\ [][Next]_vars

\* ------------------------------------------------------------------------
\* TradingManager._run_trade_cycle (trader.py)
\* ------------------------------------------------------------------------
\* What the steps of one cycle compute up to the submission, each from the
\* result of the one before it: validate_trade on the generated signal, then
\* format_quantity / format_price / check_min_order_size on the validated
\* one.  strat is the outcome of the strategy: "none" (no strategy
\* resolved), "raises" (generate_signal raised) or "signal".
CycleStages(strat, generated, pos, prices, rk, market) ==
    LET pv == NumR(GetTotalPortfolioValue(pos, prices))
        Formatted(v, fq, fp) ==
            [strat |-> strat,
             portfolio_value |-> pv,
             risk |-> v.risk,
             validated |-> v.signal,
             formatted_quantity |-> fq,
             format_price_called |-> Truthy(v.signal.price),
             formatted_price |-> fp,
             is_size_valid |-> CheckMinOrderSize(market, fq, fp)]
        Validated(v) ==
            Formatted(v, FormatQuantity(market, v.signal.quantity),
                      IF Truthy(v.signal.price)
                      THEN FormatPrice(market, v.signal.price) ELSE None)
    IN  Validated(ValidateTrade(rk, pos, generated, pv))

\* mutant: a failed check_min_order_size does not end the cycle
CycleOutcome_IgnoresMinSize(st) ==
    IF st.strat = "none" THEN "no_strategy"
    ELSE IF st.strat = "raises" THEN "signal_error"
    ELSE IF st.validated = NoSignal THEN "rejected"
    ELSE IF st.validated.action \notin {"BUY", "SELL"} THEN "finished"
    ELSE IF IsNone(st.validated.quantity)
            \/ (IsNum(st.validated.quantity) /\ st.validated.quantity.n <= 0)
    THEN "invalid_quantity"
    ELSE IF IsNone(st.formatted_quantity)
            \/ (st.validated.order_type = "LIMIT"
                /\ IsNone(st.formatted_price))
    THEN "format_error"
    ELSE IF st.formatted_quantity.n <= 0
            \/ (~IsNone(st.formatted_price) /\ st.formatted_price.n <= 0)
    THEN "invalid_formatted"
    ELSE "execute"

\* mutant: the formatted values are not tested against zero
CycleOutcome_SubmitsNonPositive(st) ==
    IF st.strat = "none" THEN "no_strategy"
    ELSE IF st.strat = "raises" THEN "signal_error"
    ELSE IF st.validated = NoSignal THEN "rejected"
    ELSE IF st.validated.action \notin {"BUY", "SELL"} THEN "finished"
    ELSE IF IsNone(st.validated.quantity)
            \/ (IsNum(st.validated.quantity) /\ st.validated.quantity.n <= 0)
    THEN "invalid_quantity"
    ELSE IF IsNone(st.formatted_quantity)
            \/ (st.validated.order_type = "LIMIT"
                /\ IsNone(st.formatted_price))
    THEN "format_error"
    ELSE IF ~st.is_size_valid THEN "size_invalid"
    ELSE "execute"

\* The early returns of _run_trade_cycle in their order: where the cycle
\* ends, or "execute" when it reaches order_executor.execute_signal
CycleOutcome(st) ==
    IF st.strat = "none" THEN "no_strategy"
    ELSE IF st.strat = "raises" THEN "signal_error"
    ELSE IF st.validated = NoSignal THEN "rejected"
    ELSE IF st.validated.action \notin {"BUY", "SELL"} THEN "finished"
    ELSE IF IsNone(st.validated.quantity)
            \/ (IsNum(st.validated.quantity) /\ st.validated.quantity.n <= 0)
    THEN "invalid_quantity"
    ELSE IF IsNone(st.formatted_quantity)
            \/ (st.validated.order_type = "LIMIT"
                /\ IsNone(st.formatted_price))
    THEN "format_error"
    ELSE IF st.formatted_quantity.n <= 0
            \/ (~IsNone(st.formatted_price) /\ st.formatted_price.n <= 0)
    THEN "invalid_formatted"
    ELSE IF ~st.is_size_valid THEN "size_invalid"
    ELSE "execute"

\* the market cache after update_market_cache: amount and price steps,
\* minimum amount and minimum cost of each traded symbol
MarketOf(s) ==
    IF s = "s1"
    THEN [present |-> TRUE, amount |-> Num(1), price |-> Num(1),
          min_amount |-> Num(2), min_cost |-> Num(4)]
    ELSE [present |-> TRUE, amount |-> Num(2), price |-> Num(2),
          min_amount |-> None, min_cost |-> None]

\* the calls of update_position_on_fill made by call number id, applied in
\* order to the positions and recorded in the histories
ApplyFillCalls(calls, id, log) ==
    /\ positions' = IF calls = << >> THEN positions
                    ELSE UpdateAndSave(positions, redis, calls[1].sym,
                             calls[1].qty, calls[1].price, calls[1].ts,
                             TRUE).positions
    /\ redis' = IF calls = << >> THEN redis
                ELSE UpdateAndSave(positions, redis, calls[1].sym,
                         calls[1].qty, calls[1].price, calls[1].ts,
                         TRUE).redis
    /\ last' = IF calls = << >> THEN last
               ELSE LastOf(positions, calls[1].sym, calls[1].qty,
                           calls[1].price, calls[1].ts)
    /\ run' = IF calls = << >> THEN run
              ELSE [run EXCEPT ![calls[1].sym] =
                       RunAfter(run[calls[1].sym],
                                GetPositionSize(positions, calls[1].sym),
                                calls[1].qty, calls[1].price)]
    /\ nfills' = nfills + Len(calls)
    /\ olog' = log \o [k \in 1 .. Len(calls) |->
                          [what |-> "applied", id |-> id]]

\* _run_trade_cycle(s, market_data) from its first statement to its return
\* or to the suspension of execute_signal in "await asyncio.sleep(0.1)":
\* no statement on the way awaits, so the step is atomic
RunCycle(s, strat, generated, ts) ==
    LET Submit(st, out, ex) ==
            LET submitted == out = "execute"
                awaiting == submitted /\ ex.does = "await"
                calls == IF awaiting THEN FillBeforeConfirmation(s, ex.order)
                         ELSE << >>
                final == IF ~submitted THEN out
                         ELSE IF ex.does = "raise" THEN "execution_failed"
                         ELSE IF ex.does = "return_none" THEN "no_result"
                         ELSE "submitting"
            IN  /\ cyc' = Append(cyc,
                       [sym |-> s,
                        pc |-> IF awaiting THEN "submitting" ELSE "done",
                        order |-> IF awaiting THEN ex.order ELSE NoOrder,
                        calls |-> Len(calls)])
                /\ risk' = IF out \in {"no_strategy", "signal_error"}
                           THEN risk ELSE st.risk
                /\ seen' = IF strat = "signal"
                              /\ Observes(generated, st.portfolio_value)
                           THEN SeenAfter(seen, st.portfolio_value)
                           ELSE seen
                /\ active_strategy_instances' =
                       GetStrategyForSymbol(active_strategy_instances, s,
                           "default", DefaultMapping,
                           strat # "none").instances
                /\ ApplyFillCalls(calls, Len(cyc) + 1, olog)
                /\ ev' = [NoEvent EXCEPT
                            !.kind = "cycle", !.sym = s, !.id = Len(cyc) + 1,
                            !.outcome = final,
                            !.risk_before = risk,
                            !.action = IF strat = "signal"
                                       THEN generated.action ELSE "None",
                            !.order_type = IF strat = "signal"
                                           THEN generated.order_type
                                           ELSE "None",
                            !.validated = strat = "signal"
                                          /\ st.validated # NoSignal,
                            !.quantity_formatted =
                                ~IsNone(st.formatted_quantity),
                            !.price_formatted =
                                ~(st.format_price_called
                                  /\ IsNone(st.formatted_price)),
                            !.size_valid = st.is_size_valid,
                            !.submitted = submitted,
                            !.value = IF submitted
                                      THEN st.formatted_quantity ELSE None,
                            !.price = IF submitted
                                      THEN st.formatted_price ELSE None,
                        !.changed = positions' # positions]
        Launch(st) ==
            Submit(st, CycleOutcome(st),
                   ExecuteSignalSubmit(
                       executor,
                       [st.validated EXCEPT
                          !.quantity = st.formatted_quantity,
                          !.price = st.formatted_price],
                       latest_prices, ts))
    IN  /\ Len(cyc) < MaxCycles
        /\ Launch(CycleStages(strat, generated, positions, latest_prices,
                              risk, MarketOf(s)))
        /\ UNCHANGED engineVars

\* the placement of call number i returns: execute_signal resumes after the
\* await, processes the fill and returns, and the cycle returns
CompleteSubmission(i) ==
    /\ i \in DOMAIN cyc
    /\ cyc[i].pc = "submitting"
    /\ LET calls == ProcessFill(cyc[i].sym, cyc[i].order)
       IN  /\ cyc' = [cyc EXCEPT ![i].pc = "done",
                                 ![i].calls = @ + Len(calls)]
           /\ ApplyFillCalls(calls, i,
                             Append(olog, [what |-> "completed", id |-> i]))
           /\ ev' = [NoEvent EXCEPT
                       !.kind = "complete", !.sym = cyc[i].sym, !.id = i,
                       !.outcome = "executed",
                       !.changed = positions' # positions]
    /\ UNCHANGED <<engineVars, risk, seen, active_strategy_instances>>

\* _handle_market_data_update awaited by a caller other than the feed task
\* (a market data stream); what it raises goes to that caller
DirectUpdate(s, data) ==
    /\ LET h == HandleMarketDataUpdate(tasks, latest_market_data,
                                       latest_prices, s, data)
       IN  /\ latest_market_data' = h.latest_market_data
           /\ latest_prices' = h.latest_prices
           /\ tasks' = h.tasks
           /\ ev' = [NoEvent EXCEPT !.kind = "update", !.sym = s,
                                    !.data = data,
                                    !.idle = SymbolIdle(tasks, s),
                                    !.raised = h.raised,
                                    !.prices_before = latest_prices]
    /\ UNCHANGED <<feed_idx, is_running, executor, posVars, cycleVars>>

\* the signals a strategy may return
SignalQuantities == {None, NaN} \cup {Num(k) : k \in 0 .. MaxQty}

SignalPrices == {None, NaN} \cup {Num(k) : k \in 1 .. MaxPrice}

StopLosses == {None, Num(MaxPrice + 3)}

Signals(s) ==
    [action : {"BUY", "SELL"}, symbol : {s}, order_type : {"LIMIT", "MARKET"},
     quantity : SignalQuantities, price : SignalPrices,
     stop_loss_price : StopLosses]
    \cup {[NoSignal EXCEPT !.action = "HOLD", !.symbol = s]}

\* what a market data stream may deliver: an order book with bid = ask, and
\* an update whose only price is an infinite last trade
CycleData ==
    {[bid |-> Num(MaxPrice), ask |-> Num(MaxPrice), last_trade |-> None]}
    \cup {[NoData EXCEPT !.last_trade = Inf]}

\* ------------------------------------------------------------------------
\* Specification SpecCycle: _run_trade_cycle started directly as a task for
\* any symbol at any time, next to the engine
\* ------------------------------------------------------------------------
InitCycle == Construct

NextCycle ==
    \/ \E ok \in BOOLEAN : Start(ok)
    \/ \E s \in Symbols, data \in CycleData : DirectUpdate(s, data)
    \/ \E s \in Symbols, ts \in Times :
          \/ \E strat \in {"none", "raises"} : RunCycle(s, strat, NoSignal, ts)
          \/ \E sig \in Signals(s) : RunCycle(s, "signal", sig, ts)
    \/ \E i \in 1 .. MaxCycles : CompleteSubmission(i)

SpecCycle == InitCycle /\ [][NextCycle]_vars

\* ------------------------------------------------------------------------
\* Specification SpecPrices: _handle_market_data_update called for any
\* symbol with updates whose prices are valid, missing or invalid
\* ------------------------------------------------------------------------
\* a best bid, best ask or last trade: missing, NaN, infinite, zero and
\* positive
PriceValues == {None, NaN, Inf, Num(0), Num(MaxPrice)}

\* updates with the same value on both sides of the book, a book with one
\* side missing, and a book whose bid is negative and whose mid is positive
PriceData ==
    {[bid |-> v, ask |-> v, last_trade |-> t] :
        v \in PriceValues, t \in PriceValues}
    \cup {[bid |-> Num(MaxPrice), ask |-> None, last_trade |-> t] :
              t \in PriceValues}
    \cup {[bid |-> Num(0 - 1), ask |-> Num(MaxPrice + 1), last_trade |-> None]}

InitPrices == Construct

NextPrices == \E s \in Symbols, data \in PriceData : DirectUpdate(s, data)

SpecPrices == InitPrices /\ [][NextPrices]_vars

\* ------------------------------------------------------------------------
\* Specification SpecStop: the engine started and stopped while trade cycles
\* started directly as tasks place market orders
\* ------------------------------------------------------------------------
\* market orders of a size that passes every check of the cycle
StopSignals(s) ==
    {[action |-> a, symbol |-> s, order_type |-> "MARKET",
      quantity |-> Num(MaxQty + 1), price |-> None, stop_loss_price |-> None] :
        a \in {"BUY", "SELL"}}

\* the order books a market data stream delivers
StopData == {data \in CycleData : ~IsNone(data.bid)}

InitStop == Construct

NextStop ==
    \/ \E ok \in BOOLEAN : Start(ok)
    \/ Stop
    \/ \E s \in Symbols, data \in StopData : DirectUpdate(s, data)
    \/ \E s \in Symbols, ts \in Times :
          \E sig \in StopSignals(s) : RunCycle(s, "signal", sig, ts)
    \/ \E i \in 1 .. MaxCycles : CompleteSubmission(i)

SpecStop == InitStop /\ [][NextStop]_vars


\* ------------------------------------------------------------------------
\* Specification SpecOpen: trade cycles of the symbols running as concurrent
\* tasks on a started engine, each placing a market order that opens or
\* closes a position of the symbol
\* ------------------------------------------------------------------------
\* market orders whose formatted quantity is above 1e-9 on every market
OpenSignals(s) ==
    {[action |-> a, symbol |-> s, order_type |-> "MARKET",
      quantity |-> Num(2 * MaxQty), price |-> None,
      stop_loss_price |-> None] : a \in {"BUY", "SELL"}}

InitOpen == Construct

NextOpen ==
    \/ \E ok \in BOOLEAN : Start(ok)
    \/ \E s \in Symbols, data \in StopData : DirectUpdate(s, data)
    \/ \E s \in Symbols, ts \in Times :
          \E sig \in OpenSignals(s) : RunCycle(s, "signal", sig, ts)
    \/ \E i \in 1 .. MaxCycles : CompleteSubmission(i)

SpecOpen == InitOpen /\ [][NextOpen]_vars

\* ------------------------------------------------------------------------
\* Specification SpecStrategy: get_strategy_for_symbol called directly, the
\* regime and the regime mapping of the configuration changing between calls
\* ------------------------------------------------------------------------
Regimes == {"default", "trending", "unknown"}

\* regime mappings: the one of the settings, one with a second regime, one
\* that maps the regimes the other way round, one without a default and one
\* that names a class the package does not have
Mappings ==
    {DefaultMapping,
     [default |-> "ScalpingStrategy", trending |-> "MomentumStrategy"],
     [default |-> "MomentumStrategy", trending |-> "ScalpingStrategy"],
     [trending |-> "VWAPStrategy"],
     [default |-> "GhostStrategy", trending |-> ""]}

InitStrategy == Construct

Resolve(s, regime, mapping, inst_ok) ==
    LET r == GetStrategyForSymbol(active_strategy_instances, s, regime,
                                  mapping, inst_ok)
    IN  /\ \A x \in Symbols : r.instances[x].gen <= MaxInstances
        /\ active_strategy_instances' = r.instances
        /\ ev' = [NoEvent EXCEPT
                    !.kind = "resolve", !.sym = s, !.regime = regime,
                    !.mapping = mapping, !.strategy = r.returned,
                    !.strategy_before = active_strategy_instances[s]]
        /\ UNCHANGED <<engineVars, posVars, risk, cyc, olog, seen>>

NextStrategy ==
    \E s \in Symbols, regime \in Regimes, mapping \in Mappings,
       inst_ok \in BOOLEAN :
        Resolve(s, regime, mapping, inst_ok)

SpecStrategy == InitStrategy /\ [][NextStrategy]_vars

\* ------------------------------------------------------------------------
\* Specification SpecFill: update_position_on_fill called directly
\* ------------------------------------------------------------------------
InitFill == Construct

\* update_position_on_fill(s, fq, fp, ts); write_ok: dumps and set succeed
FillWith(s, fq, fp, ts, write_ok) ==
    /\ nfills < MaxFills
    /\ LET done == UpdateAndSave(positions, redis, s, fq, fp, ts, write_ok)
       IN  /\ positions' = done.positions
           /\ redis' = done.redis
           /\ ev' = [NoEvent EXCEPT
                       !.kind = "fill", !.sym = s, !.raised = done.raised,
                       !.write = IF ~redis.client THEN "None"
                                 ELSE IF write_ok THEN "ok" ELSE "failed"]
    /\ nfills' = nfills + 1
    /\ last' = LastOf(positions, s, fq, fp, ts)
    /\ run' = [run EXCEPT ![s] = RunAfter(run[s], GetPositionSize(positions, s),
                                          fq, fp)]
    /\ UNCHANGED <<engineVars, cycleVars>>

Fill(s, fq, fp, ts) == FillWith(s, fq, fp, ts, TRUE)

\* the floats a caller may pass as a fill quantity or price
FillValues(S) == {Num(x) : x \in S} \cup {NaN, Inf}

NextFill ==
    \E s \in Symbols, fq \in FillValues(FillQtys), fp \in FillValues(Prices),
       ts \in Times :
        Fill(s, fq, fp, ts)

SpecFill == InitFill /\ [][NextFill]_vars

\* ------------------------------------------------------------------------
\* Specification SpecPersist: update_position_on_fill called directly on a
\* store with or without a redis client, whose writes may fail
\* ------------------------------------------------------------------------
PersistQtys == {Num(MaxQty + 1), Num(0 - (MaxQty + 1)), NaN}

PersistPrices == {Num(1), Num(MaxPrice)}

PersistTimes == {MaxTime, NaNTime}

\* the store is empty when the client connects, so nothing is loaded
InitPersist ==
    /\ positions = << >>
    /\ redis \in {NoRedis, [NoRedis EXCEPT !.client = TRUE]}
    /\ latest_prices = [s \in Symbols |-> None]
    /\ latest_market_data = [s \in Symbols |-> None]
    /\ tasks = << >>
    /\ feed_idx = 1
    /\ is_running = FALSE
    /\ executor = [exchange |-> FALSE, is_initialized |-> FALSE]
    /\ risk = InitialRisk
    /\ cyc = << >>
    /\ nfills = 0
    /\ last = NoLast
    /\ run = [s \in Symbols |-> NoRun]
    /\ olog = << >>
    /\ seen = Zero
    /\ active_strategy_instances = [s \in Symbols |-> NoInstance]
    /\ ev = NoEvent

NextPersist ==
    \E s \in Symbols, fq \in PersistQtys, fp \in PersistPrices,
       ts \in PersistTimes, write_ok \in BOOLEAN :
        FillWith(s, fq, fp, ts, write_ok)

SpecPersist == InitPersist /\ [][NextPersist]_vars

\* ------------------------------------------------------------------------
\* Specification SpecRestore: fills on a store whose writes succeed, and new
\* PositionManagers constructed over the same redis
\* ------------------------------------------------------------------------
\* "Restore floats from None": a float field that was stored as None
RestoreFloats(p) ==
    [p EXCEPT !.last_update_time = IF @ = NoTime THEN 0 ELSE @]

\* mutant: keys of flat positions are not loaded
LoadPositionsFromRedis_SkipsFlat(rds) ==
    IF ~rds.client THEN << >>
    ELSE [s \in {x \in DOMAIN rds.store : rds.store[x].quantity # 0} |->
             RestoreFloats(rds.store[s])]

\* _load_positions_from_redis: every key under the prefix is read, decoded
\* and put into positions under the symbol that follows the prefix
LoadPositionsFromRedis(rds) ==
    IF ~rds.client THEN << >>
    ELSE [s \in DOMAIN rds.store |-> RestoreFloats(rds.store[s])]

\* PositionManager(config) constructed while the process of the one before
\* it has ended: it connects and loads
Restart ==
    /\ redis.client
    /\ positions' = LoadPositionsFromRedis(redis)
    /\ ev' = [NoEvent EXCEPT !.kind = "restart",
                             !.positions_before = positions]
    /\ UNCHANGED <<redis, nfills, last, run, engineVars, cycleVars>>

InitRestore ==
    /\ positions = << >>
    /\ redis = [NoRedis EXCEPT !.client = TRUE]
    /\ latest_prices = [s \in Symbols |-> None]
    /\ latest_market_data = [s \in Symbols |-> None]
    /\ tasks = << >>
    /\ feed_idx = 1
    /\ is_running = FALSE
    /\ executor = [exchange |-> FALSE, is_initialized |-> FALSE]
    /\ risk = InitialRisk
    /\ cyc = << >>
    /\ nfills = 0
    /\ last = NoLast
    /\ run = [s \in Symbols |-> NoRun]
    /\ olog = << >>
    /\ seen = Zero
    /\ active_strategy_instances = [s \in Symbols |-> NoInstance]
    /\ ev = NoEvent

NextRestore ==
    \/ \E s \in Symbols, fq \in PersistQtys, fp \in PersistPrices,
          ts \in PersistTimes :
           Fill(s, fq, fp, ts)
    \/ Restart

SpecRestore == InitRestore /\ [][NextRestore]_vars

\* ------------------------------------------------------------------------
\* The risk controller called directly (update_portfolio_value and
\* validate_trade are public), over a store that fills open and close
\* ------------------------------------------------------------------------
\* portfolio values handed to the controller: invalid ones, zero, and the
\* values within ValueSpan below MaxValue, so that drawdowns of 0, 5, 10 and
\* 100 percent of the peak MaxValue occur
ObservedValues ==
    {NaN, Inf, Num(0)} \cup {Num(k) : k \in (MaxValue - ValueSpan)..MaxValue}

\* fills that open, close or reverse a position larger than the dust
\* threshold, and one of exactly the threshold
RiskFillQtys == {Eps, MaxQty + 1, 0 - (MaxQty + 1)}

\* the store is filled in one symbol; signals name any symbol
RiskFillSymbols == {CHOOSE s \in Symbols : TRUE}

RiskSignals ==
    [action : {"BUY", "SELL", "HOLD"},
     symbol : Symbols \cup {"None"},
     order_type : {"MARKET"},
     quantity : {Num(MaxQty)},
     price : {Num(MaxPrice)},
     stop_loss_price : {None, Num(MaxPrice + 3)}]

\* update_portfolio_value(v)
Observe(v) ==
    /\ risk' = UpdatePortfolioValue(risk, v)
    /\ seen' = SeenAfter(seen, v)
    /\ ev' = [NoEvent EXCEPT !.kind = "observe", !.value = v,
                             !.risk_before = risk]
    /\ UNCHANGED <<engineVars, posVars, cyc, olog,
                   active_strategy_instances>>

\* validate_trade(sig, pv, current_prices)
Validate(sig, pv) ==
    LET Returned(r) ==
            /\ risk' = r.risk
            /\ ev' = [NoEvent EXCEPT !.kind = "validate", !.sym = sig.symbol,
                                     !.value = pv, !.given = sig,
                                     !.returned = r.signal,
                                     !.risk_before = risk,
                                     !.positions_before = positions]
    IN  /\ Returned(ValidateTrade(risk, positions, sig, pv))
        /\ positions' = StoreAfterValidate(positions, sig)
        /\ seen' = IF Observes(sig, pv) THEN SeenAfter(seen, pv) ELSE seen
        /\ UNCHANGED <<engineVars, redis, nfills, last, run, cyc, olog,
                       active_strategy_instances>>

InitRisk == Construct

NextRisk ==
    \/ \E v \in ObservedValues : Observe(v)
    \/ \E sig \in RiskSignals, pv \in ObservedValues : Validate(sig, pv)
    \/ \E s \in RiskFillSymbols, fq \in RiskFillQtys :
           Fill(s, Num(fq), Num(1), 1)

SpecRisk == InitRisk /\ [][NextRisk]_vars

\* ------------------------------------------------------------------------
\* Specification SpecHalt: trade cycles on a started engine while the marks
\* move and the portfolio value is observed; update_portfolio_value called
\* directly stands for the observations of the cycles before and between
\* the MaxCycles cycles that run
\* ------------------------------------------------------------------------
\* order books at every price
HaltData ==
    {[bid |-> Num(k), ask |-> Num(k), last_trade |-> None] :
        k \in 1 .. MaxPrice}

\* portfolio values observed: nothing held, and the largest position of
\* OpenSignals at the highest mark
HaltValues == {Num(0), Num(2 * MaxQty * MaxPrice)}

InitHalt == Construct

NextHalt ==
    \/ \E ok \in BOOLEAN : Start(ok)
    \/ \E s \in Symbols, data \in HaltData : DirectUpdate(s, data)
    \/ \E v \in HaltValues : Observe(v)
    \/ \E s \in Symbols, ts \in Times :
          \E sig \in OpenSignals(s) : RunCycle(s, "signal", sig, ts)
    \/ \E i \in 1 .. MaxCycles : CompleteSubmission(i)

SpecHalt == InitHalt /\ [][NextHalt]_vars

\* ------------------------------------------------------------------------
\* Specification SpecFormat: format_quantity, format_price and
\* check_min_order_size called once on inputs drawn by Init
\* ------------------------------------------------------------------------
\* precision steps of a cached market: unknown, 0.0, and 1 .. MaxStep
PrecisionSteps == {None} \cup {Num(k) : k \in 0 .. MaxStep}

\* the floats to format: halves of the integers from -MaxQty to beyond
\* MaxQuanta steps, NaN and infinity
FormatValues ==
    {NumR(Rat(k, 2)) : k \in (0 - 2 * MaxQty) .. (2 * (MaxQuanta + MaxStep))}
        \cup {NaN, Inf}

\* limits of a cached market: none, or a minimum
MinAmounts == {None, Num(MaxQty)}

MinCosts == {None, Num(2 * MaxQty)}

\* quantities and prices handed to check_min_order_size
CheckedQuantities == {Num(k) : k \in 0 .. (MaxQty + 1)} \cup {NaN, Inf}

CheckedPrices ==
    {Num(k) : k \in (0 - 1) .. (MaxPrice + 1)} \cup {None, NaN, Inf}

FormatCalls ==
    [fn : {"format_quantity"},
     market : {NoMarket} \cup {[NoMarket EXCEPT !.present = TRUE,
                                               !.amount = a] :
                                   a \in PrecisionSteps},
     quantity : FormatValues, price : {None}]
    \cup
    [fn : {"format_price"},
     market : {NoMarket} \cup {[NoMarket EXCEPT !.present = TRUE,
                                               !.price = a] :
                                   a \in PrecisionSteps},
     quantity : {None}, price : FormatValues]
    \cup
    [fn : {"check_min_order_size"},
     market : {NoMarket} \cup {[NoMarket EXCEPT !.present = TRUE,
                                               !.min_amount = a,
                                               !.min_cost = c] :
                                   a \in MinAmounts, c \in MinCosts},
     quantity : CheckedQuantities, price : CheckedPrices]

InitFormat ==
    /\ positions = << >>
    /\ redis = NoRedis
    /\ latest_prices = [s \in Symbols |-> None]
    /\ latest_market_data = [s \in Symbols |-> None]
    /\ tasks = << >>
    /\ feed_idx = 1
    /\ is_running = FALSE
    /\ executor = [exchange |-> FALSE, is_initialized |-> FALSE]
    /\ risk = InitialRisk
    /\ cyc = << >>
    /\ nfills = 0
    /\ last = NoLast
    /\ run = [s \in Symbols |-> NoRun]
    /\ olog = << >>
    /\ seen = Zero
    /\ active_strategy_instances = [s \in Symbols |-> NoInstance]
    /\ ev \in {[NoEvent EXCEPT !.kind = "call", !.fn = c.fn,
                               !.market = c.market, !.value = c.quantity,
                               !.price = c.price] : c \in FormatCalls}

Called(fn) == ev.kind = "call" /\ ev.fn = fn

FormatQuantityCall ==
    /\ Called("format_quantity")
    /\ ev' = [ev EXCEPT !.kind = "returned",
                        !.result = FormatQuantity(ev.market, ev.value)]
    /\ UNCHANGED <<engineVars, posVars, cycleVars>>

FormatPriceCall ==
    /\ Called("format_price")
    /\ ev' = [ev EXCEPT !.kind = "returned",
                        !.result = FormatPrice(ev.market, ev.price)]
    /\ UNCHANGED <<engineVars, posVars, cycleVars>>

CheckMinOrderSizeCall ==
    /\ Called("check_min_order_size")
    /\ ev' = [ev EXCEPT !.kind = "returned",
                        !.ok = CheckMinOrderSize(ev.market, ev.value,
                                                 ev.price)]
    /\ UNCHANGED <<engineVars, posVars, cycleVars>>

NextFormat ==
    \/ FormatQuantityCall
    \/ FormatPriceCall
    \/ CheckMinOrderSizeCall

SpecFormat == InitFormat /\ [][NextFormat]_vars

\* ------------------------------------------------------------------------
\* Specification SpecQuantity: get_trade_quantity called once on a
\* PortfolioManager, a market and arguments drawn by Init
\* ------------------------------------------------------------------------
\* available_capital: update_position subtracts the cost of an entry from
\* it without a test, so it can be negative
Capitals == {Num(k) : k \in (0 - MaxCapital) .. MaxCapital}

Percentages == {NumR(Rat(1, 2)), Num(1)}

CurrentPrices == {NaN, Inf} \cup {Num(k) : k \in (0 - 1) .. MaxPrice}

\* the cached market of the symbol: none, or amount precision and limits
QuantityMarkets ==
    {NoMarket} \cup {[NoMarket EXCEPT !.present = TRUE, !.amount = a,
                                      !.min_amount = m, !.min_cost = c] :
                         a \in {None} \cup {Num(k) : k \in 0 .. 2},
                         m \in MinAmounts, c \in MinCosts}

InitQuantity ==
    /\ positions = << >>
    /\ redis = NoRedis
    /\ latest_prices = [s \in Symbols |-> None]
    /\ latest_market_data = [s \in Symbols |-> None]
    /\ tasks = << >>
    /\ feed_idx = 1
    /\ is_running = FALSE
    /\ executor = [exchange |-> FALSE, is_initialized |-> FALSE]
    /\ risk = InitialRisk
    /\ cyc = << >>
    /\ nfills = 0
    /\ last = NoLast
    /\ run = [s \in Symbols |-> NoRun]
    /\ olog = << >>
    /\ seen = Zero
    /\ active_strategy_instances = [s \in Symbols |-> NoInstance]
    /\ \E m \in QuantityMarkets, c \in Capitals, pct \in Percentages,
          p \in CurrentPrices :
           ev = [NoEvent EXCEPT !.kind = "call", !.fn = "get_trade_quantity",
                                !.market = m, !.capital = c,
                                !.percentage = pct, !.price = p]

GetTradeQuantityCall ==
    /\ Called("get_trade_quantity")
    /\ ev' = [ev EXCEPT !.kind = "returned",
                        !.result = GetTradeQuantity(ev.market, ev.capital,
                                                    ev.price, ev.percentage)]
    /\ UNCHANGED <<engineVars, posVars, cycleVars>>

NextQuantity == GetTradeQuantityCall

SpecQuantity == InitQuantity /\ [][NextQuantity]_vars

\* ------------------------------------------------------------------------
\* Specification SpecValue: get_total_portfolio_value called on a store
\* that fills have left, with the prices a caller may pass
\* ------------------------------------------------------------------------
\* a position that one fill has opened, long or short, and a flat one
HeldPosition(q) ==
    [NewPosition EXCEPT !.quantity = q,
                        !.average_entry_price = IF q = 0 THEN Zero
                                                ELSE RatInt(MaxPrice),
                        !.last_update_time = MaxTime]

HeldQtys == {0 - (MaxQty + 1), 0, MaxQty, MaxQty + 1}

HeldStores ==
    UNION {[S -> {HeldPosition(q) : q \in HeldQtys}] : S \in SUBSET Symbols}

\* current_prices[s]; None: the dictionary has no entry for s
MarkValues == {None, NaN, Inf, Num(0), Num(0 - 1), Num(MaxPrice)}

InitValue ==
    /\ positions \in HeldStores
    /\ redis = NoRedis
    /\ latest_prices \in [Symbols -> MarkValues]
    /\ latest_market_data = [s \in Symbols |-> None]
    /\ tasks = << >>
    /\ feed_idx = 1
    /\ is_running = FALSE
    /\ executor = [exchange |-> FALSE, is_initialized |-> FALSE]
    /\ risk = InitialRisk
    /\ cyc = << >>
    /\ nfills = 0
    /\ last = NoLast
    /\ run = [s \in Symbols |-> NoRun]
    /\ olog = << >>
    /\ seen = Zero
    /\ active_strategy_instances = [s \in Symbols |-> NoInstance]
    /\ ev = [NoEvent EXCEPT !.kind = "call",
                            !.fn = "get_total_portfolio_value"]

GetTotalPortfolioValueCall ==
    /\ Called("get_total_portfolio_value")
    /\ ev' = [ev EXCEPT !.kind = "returned",
                        !.result = NumR(GetTotalPortfolioValue(
                                            positions, latest_prices))]
    /\ UNCHANGED <<engineVars, posVars, cycleVars>>

NextValue == GetTotalPortfolioValueCall

SpecValue == InitValue /\ [][NextValue]_vars

\* ------------------------------------------------------------------------
\* The risk controller called directly with signals of several sizes and
\* stop distances, over an empty store
\* ------------------------------------------------------------------------
\* quantities whose risk is below, at and above half of the portfolio values
SizedQuantities == {Num(k) : k \in MaxQty .. (MaxQty + MaxExcess)}

\* stops at distance 0 .. MaxExcess from the price MaxPrice: at 0, below
\* the tolerance, at the tolerance and above it
SizedStops == {None} \cup {Num(MaxPrice + k) : k \in 0 .. MaxExcess}

SizedSignals ==
    [action : {"BUY", "SELL"},
     symbol : Symbols,
     order_type : {"MARKET"},
     quantity : SizedQuantities,
     price : {Num(MaxPrice)},
     stop_loss_price : SizedStops]

InitSizing == Construct

NextSizing ==
    \/ \E v \in ObservedValues : Observe(v)
    \/ \E sig \in SizedSignals, pv \in ObservedValues : Validate(sig, pv)

SpecSizing == InitSizing /\ [][NextSizing]_vars

\* ------------------------------------------------------------------------
\* Engine claims (checked under Spec)
\* ------------------------------------------------------------------------
\* the calls of _run_trade_cycle for s that are suspended in execute_signal
CyclesInFlight(s) ==
    {i \in DOMAIN cyc : cyc[i].sym = s /\ cyc[i].pc = "submitting"}

\* the handler has just returned from (or raised in) an update
Updated == ev.kind = "update"

C2_UpdateStartsCycle ==
    Updated =>
        /\ latest_market_data[ev.sym] = ev.data
        /\ ~ev.raised
        /\ ev.idle => ~SymbolIdle(tasks, ev.sym)

\* C6: an error raised while handling the update of one symbol leaves the
\* other symbols receiving updates: the feed that delivers them is still
\* running afterwards.
C6_ErrorIsolation ==
    (Updated /\ ev.raised) =>
        /\ "data_simulator" \in DOMAIN tasks
        /\ tasks["data_simulator"] = "pending"

\* ------------------------------------------------------------------------
\* Cycle claims (checked under SpecCycle)
\* ------------------------------------------------------------------------
Confirmed(order) == order.status = "closed" /\ Positive(order.filled)

RECURSIVE SumCalls(_)
SumCalls(n) == IF n = 0 THEN 0 ELSE cyc[n].calls + SumCalls(n - 1)

\* the submission of call number ev.id has just completed
Completed == ev.kind = "complete"

\* C3: update_position_on_fill is called exactly once for a submission whose
\* result is a confirmed fill (closed, filled > 0), when the submission
\* completes, with +filled for a buy and -filled for a sell, the average
\* fill price and the fill timestamp; it is called for nothing else, and a
\* submission that is pending, open, failed or without result leaves the
\* positions unchanged.
C3_FillAppliedOnceWhenConfirmed ==
    /\ nfills = SumCalls(Len(cyc))
    /\ \A i \in DOMAIN cyc :
          cyc[i].calls =
              IF cyc[i].pc = "done" /\ Confirmed(cyc[i].order) THEN 1 ELSE 0
    /\ (ev.kind = "cycle" /\ ev.submitted) => ~ev.changed
    /\ (Completed /\ ~Confirmed(cyc[ev.id].order)) => ~ev.changed
    /\ (Completed /\ Confirmed(cyc[ev.id].order)) =>
          /\ last.sym = cyc[ev.id].sym
          /\ last.ts = cyc[ev.id].order.timestamp
          /\ last.valid = IsNum(cyc[ev.id].order.average)
          /\ last.fq = IF cyc[ev.id].order.side = "buy"
                       THEN cyc[ev.id].order.filled.n
                       ELSE 0 - cyc[ev.id].order.filled.n
          /\ last.fp = cyc[ev.id].order.average.n
          /\ last.valid =>
                LastPos.quantity =
                    IF Abs(last.oldq + last.fq) < Eps THEN 0
                    ELSE last.oldq + last.fq

\* the fill of a sell has been applied to a position
C3_Witness ==
    /\ Completed
    /\ Confirmed(cyc[ev.id].order)
    /\ cyc[ev.id].order.side = "sell"
    /\ last.valid
    /\ last.fq < 0
    /\ ev.changed
    /\ \E i \in DOMAIN cyc :
          cyc[i].pc = "done" /\ cyc[i].order.status = "open"

\* a cycle ended before the submission: nothing submitted, nothing applied
CycleEndedEarly ==
    /\ ~ev.changed
    /\ cyc[ev.id].pc = "done"
    /\ cyc[ev.id].calls = 0
    /\ cyc[ev.id].order = NoOrder

\* C4 as claimed: an order is submitted only after, in the same cycle, the
\* strategy produced a BUY/SELL signal, validate_trade returned it,
\* format_quantity and format_price did not fail and check_min_order_size
\* returned true; every other cycle ends with no submission and no position
\* change, and a submission changes no position before it completes.
C4_StepsInOrder_AsClaimed ==
    ev.kind = "cycle" =>
        /\ ev.submitted =>
              /\ ev.action \in {"BUY", "SELL"}
              /\ ev.validated
              /\ ev.quantity_formatted
              /\ ev.price_formatted
              /\ ev.size_valid
              /\ ~ev.changed
        /\ ~ev.submitted => CycleEndedEarly

\* C4 amended: the same, with a failed format_price ending the cycle for a
\* LIMIT order only (the price of a MARKET order is not sent).
C4_StepsInOrder ==
    ev.kind = "cycle" =>
        /\ ev.submitted =>
              /\ ev.action \in {"BUY", "SELL"}
              /\ ev.validated
              /\ ev.quantity_formatted
              /\ ev.order_type = "LIMIT" => ev.price_formatted
              /\ ev.size_valid
              /\ ~ev.changed
        /\ ~ev.submitted => CycleEndedEarly

\* a LIMIT order that passed every step has been submitted
C4_Witness ==
    /\ ev.kind = "cycle"
    /\ ev.submitted
    /\ ev.outcome = "submitting"
    /\ ev.order_type = "LIMIT"
    /\ ev.price_formatted
    /\ ev.size_valid
    /\ cyc[ev.id].order.status = "closed"

\* C5: once a cycle of a symbol has ended and none is in flight, the next
\* update for the symbol is handled without an exception and starts a new
\* cycle.
C5_RetryAfterCycleEnds ==
    (/\ Updated
     /\ \E i \in DOMAIN cyc : cyc[i].sym = ev.sym /\ cyc[i].pc = "done"
     /\ CyclesInFlight(ev.sym) = {})
    => (~ev.raised /\ ~SymbolIdle(tasks, ev.sym))

\* the place in olog of the first entry [what, id], 0 when there is none
FirstIdx(what, id) ==
    LET hits == {k \in DOMAIN olog : olog[k] = [what |-> what, id |-> id]}
    IN  IF hits = {} THEN 0
        ELSE CHOOSE k \in hits : \A j \in hits : k <= j

\* submission i completed before submission j of the same symbol, both with
\* a confirmed fill
CompletedBefore(i, j) ==
    /\ i # j
    /\ cyc[i].sym = cyc[j].sym
    /\ Confirmed(cyc[i].order)
    /\ Confirmed(cyc[j].order)
    /\ FirstIdx("completed", i) > 0
    /\ FirstIdx("completed", j) > FirstIdx("completed", i)

\* C7: for each symbol the fills are applied in the order in which their
\* submissions completed: if submission A completes before submission B of
\* the same symbol, A's fill is applied after A completed, before B
\* completed and before B's fill.
C7_FillsInCompletionOrder ==
    \A i, j \in DOMAIN cyc :
        CompletedBefore(i, j) =>
            /\ FirstIdx("applied", i) > FirstIdx("completed", i)
            /\ FirstIdx("applied", i) < FirstIdx("completed", j)
            /\ FirstIdx("applied", i) < FirstIdx("applied", j)

\* two submissions of one symbol overlapped and completed in the reverse of
\* the order in which they were made, each with a fill
C7_Witness ==
    \E i, j \in DOMAIN cyc :
        /\ i > j
        /\ CompletedBefore(i, j)
        /\ FirstIdx("applied", j) > 0

\* ------------------------------------------------------------------------
\* Position claims (checked under SpecFill)
\* ------------------------------------------------------------------------
Filled == last.sym # "None" /\ last.valid

\* the last fill opened or added to a position in its own direction
LastAdds ==
    /\ Filled
    /\ last.fq # 0
    /\ last.oldq = 0 \/ Sign(last.oldq) = Sign(last.fq)

\* (old_size * old_entry + qty * price) / new_size, as an exact rational
WeightedEntry ==
    Rat(last.oldq * last.oldavg.n + last.fq * last.fp * last.oldavg.d,
        last.oldavg.d * (last.oldq + last.fq))

\* size and entry price of s agree with the sum and the volume-weighted
\* average of the fills recorded in run[s]
RunIsVWAP(s) ==
    /\ positions[s].quantity = run[s].sumQ
    /\ positions[s].average_entry_price.n * run[s].sumQ
         = run[s].sumQP * positions[s].average_entry_price.d

\* C8 as claimed: after every sequence of same-direction fills starting from
\* flat, size is the sum of the fill quantities and entry_price is their
\* volume-weighted average; each adding fill sets
\* entry_price = (old_size*old_entry + qty*price) / new_size.
C8_SameDirectionVWAP_AsClaimed ==
    /\ \A s \in DOMAIN positions :
          run[s].dir \in {1, 0 - 1} => RunIsVWAP(s)
    /\ LastAdds =>
          /\ LastPos.quantity = last.oldq + last.fq
          /\ LastPos.average_entry_price = WeightedEntry

\* C8 amended: the same, for sequences whose running size is at least 1e-9
\* in magnitude after each fill (a first fill below 1e-9 is taken as a close
\* and leaves the position flat with entry_price 0).
C8_SameDirectionVWAP ==
    /\ \A s \in DOMAIN positions :
          (run[s].dir \in {1, 0 - 1} /\ Abs(run[s].first) >= Eps)
             => RunIsVWAP(s)
    /\ (LastAdds /\ Abs(last.oldq + last.fq) >= Eps) =>
          /\ LastPos.quantity = last.oldq + last.fq
          /\ LastPos.average_entry_price = WeightedEntry

\* two or more same-direction fills at different prices have been averaged
C8_Witness ==
    \E s \in DOMAIN positions :
        /\ run[s].dir \in {1, 0 - 1}
        /\ Abs(run[s].first) >= Eps
        /\ run[s].sumQ # run[s].first
        /\ positions[s].average_entry_price.d > 1
        /\ LastAdds /\ last.sym = s

\* C9: in every state of every Position size = 0 implies entry_price = 0,
\* and a fill that brings |size| under 1e-9 sets size to exactly 0 and
\* entry_price to 0.
C9_FlatHasNoEntryPrice ==
    /\ \A s \in DOMAIN positions :
          positions[s].quantity = 0 => positions[s].average_entry_price = Zero
    /\ (Filled /\ Abs(last.oldq + last.fq) < Eps) =>
          /\ LastPos.quantity = 0
          /\ LastPos.average_entry_price = Zero

\* an open position with a nonzero entry price has just been closed
C9_Witness ==
    /\ Filled
    /\ Abs(last.oldq) >= Eps
    /\ last.oldavg # Zero
    /\ Abs(last.oldq + last.fq) < Eps
    /\ LastPos.quantity = 0

\* the last fill had the opposite sign and a larger magnitude than the position
LastFlips ==
    /\ Filled
    /\ last.oldq # 0
    /\ Sign(last.fq) = 0 - Sign(last.oldq)
    /\ Abs(last.fq) > Abs(last.oldq)

\* C10 as claimed: a fill of opposite sign whose magnitude exceeds the
\* current size leaves size = old_size + signed_quantity and entry_price =
\* the fill's price.
C10_Flip_AsClaimed ==
    LastFlips =>
        /\ LastPos.quantity = last.oldq + last.fq
        /\ LastPos.average_entry_price = RatInt(last.fp)

\* C10 amended: the same, when the magnitude exceeds the current size by at
\* least 1e-9 (a smaller excess is taken as an exact close: size 0, entry 0).
C10_Flip ==
    (LastFlips /\ Abs(last.oldq + last.fq) >= Eps) =>
        /\ LastPos.quantity = last.oldq + last.fq
        /\ LastPos.average_entry_price = RatInt(last.fp)

\* a long position has been flipped short (or the reverse) at a new price
C10_Witness ==
    /\ LastFlips
    /\ Abs(last.oldq + last.fq) >= Eps
    /\ last.oldavg # RatInt(last.fp)
    /\ Sign(LastPos.quantity) = 0 - Sign(last.oldq)

\* the last fill had the opposite sign and a smaller magnitude than the
\* position
LastReduces ==
    /\ Filled
    /\ last.oldq # 0
    /\ Sign(last.fq) = 0 - Sign(last.oldq)
    /\ Abs(last.fq) < Abs(last.oldq)

\* C11 as claimed: a fill of opposite sign that leaves a nonzero size of the
\* same sign leaves entry_price unchanged and sets size to
\* old_size + signed_quantity.
C11_Reduce_AsClaimed ==
    LastReduces =>
        /\ LastPos.quantity = last.oldq + last.fq
        /\ Sign(LastPos.quantity) = Sign(last.oldq)
        /\ LastPos.average_entry_price = last.oldavg

\* C11 amended: the same, when the size that is left is at least 1e-9 in
\* magnitude (a smaller remainder is taken as an exact close: size 0, entry 0).
C11_Reduce ==
    (LastReduces /\ Abs(last.oldq + last.fq) >= Eps) =>
        /\ LastPos.quantity = last.oldq + last.fq
        /\ Sign(LastPos.quantity) = Sign(last.oldq)
        /\ LastPos.average_entry_price = last.oldavg

\* a position has been reduced, not closed, at a price other than its entry
C11_Witness ==
    /\ LastReduces
    /\ Abs(last.oldq + last.fq) >= Eps
    /\ last.oldavg # RatInt(last.fp)
    /\ LastPos.quantity = last.oldq + last.fq

\* the quantity of the old position that the last fill closed, signed by the
\* direction of the old position (0 for a fill that opens or adds)
ClosedQuantity ==
    IF last.oldq # 0 /\ Sign(last.fq) = 0 - Sign(last.oldq)
    THEN Sign(last.oldq) * (IF Abs(last.fq) < Abs(last.oldq)
                            THEN Abs(last.fq) ELSE Abs(last.oldq))
    ELSE 0

\* (fill price - entry_price) * closed quantity
RealizedByLastFill ==
    RatMul(RatSub(RatInt(last.fp), last.oldavg), RatInt(ClosedQuantity))

\* realized_pnl of the symbol before the last fill
RealizedBefore ==
    IF last.sym \in DOMAIN last.before
    THEN last.before[last.sym].realized_pnl ELSE 0

\* C12: every fill adds (fill price - entry_price) * closed quantity to the
\* realized_pnl of its symbol: the whole old size on a close or a flip, the
\* reduced portion on a reduction, nothing on a fill that opens or adds.
C12_RealizedPnl ==
    Filled =>
        RatEq(RatInt(LastPos.realized_pnl),
              RatAdd(RatInt(RealizedBefore), RealizedByLastFill))

\* the last call of update_position_on_fill had a NaN or infinite argument
Dropped == last.sym # "None" /\ ~last.valid

\* C13: a fill whose price or quantity is NaN or infinite leaves the store as
\* it was: the same symbols, and for each the same size, entry_price,
\* realized_pnl and last_update_time.
C13_InvalidFillDropped ==
    Dropped => positions = last.before

\* ------------------------------------------------------------------------
\* Risk controller claims (specification SpecRisk)
\* ------------------------------------------------------------------------
\* the last step handed a valid value to update_portfolio_value, directly
\* or through validate_trade
ObservedValue ==
    \/ ev.kind = "observe" /\ IsNum(ev.value)
    \/ ev.kind = "validate" /\ Observes(ev.given, ev.value)

\* (peak - v) / peak of the observation just made, 0 if peak <= 0
LastDrawdown ==
    IF RatLess(Zero, risk.portfolio_peak_value)
    THEN RatDiv(RatSub(risk.portfolio_peak_value, RatOf(ev.value)),
                risk.portfolio_peak_value)
    ELSE Zero

HalfMaxDrawdown == RatDiv(Config.max_drawdown_pct, RatInt(2))

\* C14: halted switches from false to true only on an observation whose
\* drawdown (peak - v)/peak is >= max_drawdown_pct, and after every
\* observation with drawdown >= max_drawdown_pct halted is true
C14_HaltAtMaxDrawdown ==
    ObservedValue =>
        /\ (~ev.risk_before.is_trading_halted /\ risk.is_trading_halted)
               => RatLessEq(Config.max_drawdown_pct, LastDrawdown)
        /\ RatLessEq(Config.max_drawdown_pct, LastDrawdown)
               => risk.is_trading_halted

\* trading was halted by an observation exactly at the maximum drawdown
C14_Witness ==
    /\ ObservedValue
    /\ ~ev.risk_before.is_trading_halted
    /\ risk.is_trading_halted
    /\ RatEq(LastDrawdown, Config.max_drawdown_pct)

\* C15: once halted, trading stays halted across every observation whose
\* drawdown is >= max_drawdown_pct / 2 and resumes on the first one whose
\* drawdown is below it; an observation with drawdown in [max/2, max)
\* changes halted in neither direction
C15_Hysteresis ==
    ObservedValue =>
        /\ (ev.risk_before.is_trading_halted
              /\ RatLessEq(HalfMaxDrawdown, LastDrawdown))
               => risk.is_trading_halted
        /\ (ev.risk_before.is_trading_halted
              /\ RatLess(LastDrawdown, HalfMaxDrawdown))
               => ~risk.is_trading_halted
        /\ (RatLessEq(HalfMaxDrawdown, LastDrawdown)
              /\ RatLess(LastDrawdown, Config.max_drawdown_pct))
               => risk.is_trading_halted = ev.risk_before.is_trading_halted

\* trading stayed halted on a drawdown of exactly half the maximum
C15_Witness ==
    /\ ObservedValue
    /\ ev.risk_before.is_trading_halted
    /\ risk.is_trading_halted
    /\ RatEq(LastDrawdown, HalfMaxDrawdown)

\* C16: the peak portfolio value never decreases over observations and
\* validations, and it equals the maximum of its initial value 0 and all
\* valid values observed so far
C16_PeakIsRunningMax ==
    /\ risk.portfolio_peak_value = seen
    /\ ev.kind \in {"observe", "validate"}
           => RatLessEq(ev.risk_before.portfolio_peak_value,
                        risk.portfolio_peak_value)

\* a valid value below a positive peak was observed
C16_Witness ==
    /\ ObservedValue
    /\ RatLess(Zero, ev.risk_before.portfolio_peak_value)
    /\ RatLess(RatOf(ev.value), ev.risk_before.portfolio_peak_value)
    /\ risk.portfolio_peak_value = ev.risk_before.portfolio_peak_value

\* C17: observing a NaN or infinite portfolio value, directly or through
\* validate_trade, leaves the controller's state unchanged: peak and halted
\* after the call equal peak and halted before it
C17_InvalidValueIgnored ==
    (ev.kind \in {"observe", "validate"}
       /\ (IsNaN(ev.value) \/ IsInf(ev.value)))
        => risk = ev.risk_before

\* a halted controller with a positive peak was handed an invalid value
C17_Witness ==
    /\ ev.kind = "observe"
    /\ IsNaN(ev.value) \/ IsInf(ev.value)
    /\ ev.risk_before.is_trading_halted
    /\ RatLess(Zero, ev.risk_before.portfolio_peak_value)
    /\ risk = ev.risk_before

\* the last step was validate_trade on a signal that is not HOLD and names a
\* symbol
Validated ==
    /\ ev.kind = "validate"
    /\ ev.given.action # "HOLD"
    /\ ev.given.symbol # "None"

\* C18 as claimed: validate rejects (returns no signal for) every non-HOLD
\* signal whenever halted is true when validate is called
C18_HaltedRejects_AsClaimed ==
    (Validated /\ ev.risk_before.is_trading_halted)
        => ev.returned = NoSignal

\* C18: validate rejects every non-HOLD signal whenever halted is true once
\* validate has observed the portfolio value it was given, for every symbol
\* and regardless of the signal's size, stop-loss or the current position
C18_HaltedRejects ==
    (Validated /\ risk.is_trading_halted) => ev.returned = NoSignal

\* a signal that passes every other check was rejected by a halted controller
C18_Witness ==
    /\ Validated
    /\ risk.is_trading_halted
    /\ IsNum(ev.value)
    /\ ~TooManyOpenPositions(positions, ev.given)
    /\ RiskPerTrade(ev.given, ev.value) = ev.given
    /\ ev.returned = NoSignal

\* the last step was validate_trade on a HOLD signal or a signal without
\* symbol
PassedThrough ==
    /\ ev.kind = "validate"
    /\ ev.given.action = "HOLD" \/ ev.given.symbol = "None"

\* C19: validate returns a HOLD signal, or a signal with no symbol, exactly
\* as given, with no field changed, whatever the halted flag, the portfolio
\* value and the open-position count are
C19_HoldPassesThrough ==
    PassedThrough => ev.returned = ev.given

\* a HOLD signal on a symbol was returned by a halted controller at the
\* open-position limit that was handed an invalid portfolio value
C19_Witness ==
    /\ PassedThrough
    /\ ev.given.action = "HOLD"
    /\ ev.given.symbol # "None"
    /\ risk.is_trading_halted
    /\ ~IsNum(ev.value)
    /\ \E s \in DOMAIN positions :
           /\ s # ev.given.symbol
           /\ Abs(positions[s].quantity) > Eps
    /\ ev.returned = ev.given

\* the size held in the symbol of the signal validated last
SignalSize == GetPositionSize(positions, ev.given.symbol)

\* the last step was validate_trade on a BUY or SELL signal for a symbol
Traded == Validated /\ ev.given.action \in {"BUY", "SELL"}

\* the signal validated last passes every rule but the open-position limit
OtherRulesPass ==
    /\ IsNum(ev.value)
    /\ ~risk.is_trading_halted
    /\ RiskPerTrade(ev.given, ev.value) = ev.given

\* C20 as claimed: validate rejects a BUY/SELL signal on a symbol of size 0
\* when the number of symbols with nonzero size is >= max_open_positions; a
\* signal on a symbol of nonzero size is never rejected by this rule
C20_MaxOpenPositions_AsClaimed ==
    Traded =>
        /\ (/\ SignalSize = 0
            /\ Cardinality({s \in DOMAIN positions :
                              positions[s].quantity # 0})
                   >= Config.max_open_positions)
               => ev.returned = NoSignal
        /\ (SignalSize # 0 /\ OtherRulesPass) => ev.returned = ev.given

\* C20: validate rejects a BUY/SELL signal that opens or adds to a size of at
\* most 1e-9 in magnitude when the number of symbols whose size exceeds 1e-9
\* in magnitude is >= max_open_positions; a signal on a symbol whose size
\* exceeds 1e-9 in magnitude is never rejected by this rule
C20_MaxOpenPositions ==
    Traded =>
        /\ (/\ Abs(SignalSize) <= Eps
            /\ \/ SignalSize = 0
               \/ SignalSize > 0 /\ ev.given.action = "BUY"
               \/ SignalSize < 0 /\ ev.given.action = "SELL"
            /\ Cardinality({s \in DOMAIN positions :
                              Abs(positions[s].quantity) > Eps})
                   >= Config.max_open_positions)
               => ev.returned = NoSignal
        /\ (Abs(SignalSize) > Eps /\ OtherRulesPass)
               => ev.returned = ev.given

\* a signal that passes the other rules was rejected for a flat symbol while
\* another symbol was open
C20_Witness ==
    /\ Traded
    /\ SignalSize = 0
    /\ OtherRulesPass
    /\ \E s \in DOMAIN positions : Abs(positions[s].quantity) > Eps
    /\ ev.returned = NoSignal

\* ------------------------------------------------------------------------
\* Risk per trade claims (specification SpecSizing)
\* ------------------------------------------------------------------------
\* the last step was validate_trade on a BUY or SELL signal with a stop-loss
\* that reached the risk-per-trade rule with a positive portfolio value
Sized ==
    /\ Traded
    /\ ~IsNone(ev.given.stop_loss_price)
    /\ IsNum(ev.value)
    /\ RatLess(Zero, RatOf(ev.value))
    /\ ~risk.is_trading_halted
    /\ ~TooManyOpenPositions(positions, ev.given)

\* |price - stop_loss| of the signal validated last
LastRiskPerUnit ==
    RatAbs(RatSub(RatOf(ev.given.price), RatOf(ev.given.stop_loss_price)))

\* portfolio_value * max_risk_per_trade_pct of the last validation
LastAllowedRisk == RatMul(RatOf(ev.value), Config.max_risk_per_trade_pct)

\* the risk of the signal validated last exceeds the limit
Oversized ==
    RatLess(LastAllowedRisk,
            RatMul(LastRiskPerUnit, RatAbs(RatOf(ev.given.quantity))))

\* C21: for a non-halted BUY/SELL signal with a stop-loss whose risk
\* |price - stop_loss| * quantity exceeds max_risk_per_trade_pct of the
\* portfolio value, validate keeps the signal and shrinks its quantity to
\* (portfolio_value * max_risk_per_trade_pct) / risk_per_unit, strictly
\* smaller than the original, when risk_per_unit is above the tolerance
\* 1e-9, and rejects the signal when risk_per_unit is approximately 0
\* (at most 1e-9)
C21_ShrinkOrReject ==
    (Sized /\ Oversized) =>
        IF RatLess(RatInt(RiskEps), LastRiskPerUnit)
        THEN /\ ev.returned =
                  [ev.given EXCEPT !.quantity =
                       NumR(RatDiv(LastAllowedRisk, LastRiskPerUnit))]
             /\ RatLess(RatOf(ev.returned.quantity), RatOf(ev.given.quantity))
        ELSE ev.returned = NoSignal

\* an oversized signal was returned with a smaller quantity
C21_Witness ==
    /\ Sized
    /\ Oversized
    /\ ev.returned # NoSignal
    /\ RatLess(RatOf(ev.returned.quantity), RatOf(ev.given.quantity))

\* ------------------------------------------------------------------------
\* Claims about the effects of validate_trade (specification SpecRisk)
\* ------------------------------------------------------------------------
\* C22: a call to validate changes no state other than the controller's own
\* peak and halted: every Position in the store (set of symbols, size,
\* entry_price, realized_pnl) is as before the call, and validate submits no
\* order
C22_ValidateReadsOnly ==
    ev.kind = "validate" =>
        /\ positions = ev.positions_before
        /\ cyc = << >>
        /\ olog = << >>
        /\ ~ev.submitted

\* a tradable signal for a symbol without entry was validated and returned
\* over a store that holds a position in another symbol
C22_Witness ==
    /\ Traded
    /\ ev.given.symbol \notin DOMAIN positions
    /\ \E s \in DOMAIN positions : positions[s].quantity # 0
    /\ ev.returned = ev.given
    /\ positions = ev.positions_before

\* ------------------------------------------------------------------------
\* Order formatting claims (specification SpecFormat)
\* ------------------------------------------------------------------------
Returned(fn) == ev.kind = "returned" /\ ev.fn = fn

\* the step of the precision the last call rounded to, 0 when there is none
AmountStep ==
    IF ev.market.present /\ IsNum(ev.market.amount)
    THEN ev.market.amount.n ELSE 0

\* x is a multiple of step
MultipleOf(x, step) ==
    \E k \in (0 - (MaxQuanta + MaxStep + 1)) .. (MaxQuanta + MaxStep + 1) :
        RatEq(RatOf(x), RatInt(k * step))

\* C23: format_quantity never rounds up: for every positive finite quantity
\* and every amount precision the result is <= the input, is a multiple of
\* the precision step and differs from the input by less than one step; with
\* no precision metadata the input is returned unrounded, and NaN or
\* infinite input yields no value
C23_NeverRoundsUp ==
    Returned("format_quantity") =>
        /\ (IsNaN(ev.value) \/ IsInf(ev.value)) => IsNone(ev.result)
        /\ (IsNum(ev.value)
              /\ (~ev.market.present \/ IsNone(ev.market.amount)))
               => ev.result = ev.value
        /\ (IsNum(ev.value) /\ ev.value.n > 0 /\ AmountStep > 0)
               => /\ IsNum(ev.result)
                  /\ RatLessEq(RatOf(ev.result), RatOf(ev.value))
                  /\ MultipleOf(ev.result, AmountStep)
                  /\ RatLess(RatSub(RatOf(ev.value), RatOf(ev.result)),
                             RatInt(AmountStep))

\* the step of the price precision of the last call, 0 when there is none
PriceStep ==
    IF ev.market.present /\ IsNum(ev.market.price)
    THEN ev.market.price.n ELSE 0

\* C24: format_price rounds to the nearest multiple of the exchange price
\* step, not down: for every finite price the result is a multiple of the
\* step and differs from the input by at most half a step, so it may exceed
\* the input
C24_RoundsToNearest ==
    (Returned("format_price") /\ IsNum(ev.price) /\ PriceStep > 0) =>
        /\ IsNum(ev.result)
        /\ MultipleOf(ev.result, PriceStep)
        /\ RatLessEq(RatMul(RatInt(2),
                            RatAbs(RatSub(RatOf(ev.result), RatOf(ev.price)))),
                     RatInt(PriceStep))

\* a price was rounded up to the next step
C24_Witness ==
    /\ Returned("format_price")
    /\ IsNum(ev.price)
    /\ PriceStep > 1
    /\ IsNum(ev.result)
    /\ RatLess(RatOf(ev.price), RatOf(ev.result))

\* the quantity of the last call is below the minimum base amount
BelowMinAmount ==
    /\ ev.market.present
    /\ IsNum(ev.market.min_amount)
    /\ IsNum(ev.value)
    /\ RatLess(RatOf(ev.value), RatOf(ev.market.min_amount))

\* a minimum-cost rule and a valid positive price exist and quantity * price
\* of the last call is below the minimum cost
BelowMinCost ==
    /\ ev.market.present
    /\ IsNum(ev.market.min_cost)
    /\ IsNum(ev.price)
    /\ ev.price.n > 0
    /\ IsNum(ev.value)
    /\ RatLess(RatMul(RatOf(ev.value), RatOf(ev.price)),
               RatOf(ev.market.min_cost))

\* the last call had a NaN or infinite quantity or price
InvalidSizeInputs ==
    ~IsNum(ev.value) \/ IsNaN(ev.price) \/ IsInf(ev.price)

\* C25 as claimed: check_min_order_size returns false when the quantity is
\* below the minimum base amount, false when quantity * price is below the
\* minimum cost, true when no market metadata exists, and true otherwise
C25_MinOrderSize_AsClaimed ==
    Returned("check_min_order_size") =>
        (ev.ok <=> ~(BelowMinAmount \/ BelowMinCost))

\* C25: check_min_order_size returns true when no market metadata exists
\* for the symbol; with metadata it returns false when the quantity or the
\* price is NaN or infinite, false when the quantity is below the minimum
\* base amount, false when a minimum-cost rule and a valid positive price
\* exist and quantity * price is below the minimum cost, and true otherwise
C25_MinOrderSize ==
    Returned("check_min_order_size") =>
        (ev.ok <=> \/ ~ev.market.present
                   \/ ~(InvalidSizeInputs \/ BelowMinAmount \/ BelowMinCost))

\* an order of sufficient amount was refused for its cost
C25_Witness ==
    /\ Returned("check_min_order_size")
    /\ IsNum(ev.market.min_amount)
    /\ ~BelowMinAmount
    /\ BelowMinCost
    /\ ~ev.ok

\* ------------------------------------------------------------------------
\* Start and stop claims
\* ------------------------------------------------------------------------
\* C26: after stop() has been called a market-data update no longer starts a
\* trade cycle: while the engine is stopped no update is handled, no task of
\* the engine is pending and no cycle is running
C26_NoCycleAfterStop ==
    ~is_running =>
        /\ ~Updated
        /\ \A k \in DOMAIN tasks : TaskDone(tasks[k])
        /\ \A s \in Symbols : CyclesInFlight(s) = {}

\* stop() has cancelled a feed that was still delivering updates
C26_Witness ==
    /\ ev.kind = "stop"
    /\ "data_simulator" \in ev.cancelled
    /\ ~is_running
    /\ tasks = << >>

\* the executor is closed or was never initialized
BoundaryClosed == ~executor.is_initialized \/ ~executor.exchange

Stopped == ~is_running /\ BoundaryClosed

StartFailed == ev.kind = "start" /\ ev.raised

\* C29: when the initialization of the executor fails during start() the
\* engine is not running afterwards, the executor is closed and no feed task
\* (the one caller of the market data handler) has been started; and nothing
\* but stop() takes a running engine out of the running state, whatever
\* fails in a cycle or in a fill
C29_OnlyInitFailureIsFatal ==
    /\ [](StartFailed => (~is_running /\ BoundaryClosed /\ tasks = << >>))
    /\ [][(is_running /\ ~is_running') => ev'.kind = "stop"]_vars

\* start() has returned after a failed initialization of the executor
C29_Witness ==
    /\ StartFailed
    /\ ~is_running
    /\ tasks = << >>

\* update_position_on_fill has returned or raised after a failed write
WriteFailed == ev.kind = "fill" /\ ev.write = "failed"

\* the fill that the last call was given (an invalid quantity or price is
\* ignored whatever it is)
LastFill ==
    [fq |-> IF last.valid THEN Num(last.fq) ELSE NaN,
     fp |-> IF last.valid THEN Num(last.fp) ELSE NaN]

\* what the last call would have left in memory had its write succeeded
AsIfPersisted ==
    UpdateAndSave(last.before, [NoRedis EXCEPT !.client = TRUE], last.sym,
                  LastFill.fq, LastFill.fp, last.ts, TRUE).positions

\* C30: when the write to the store fails during a fill the fill is applied
\* all the same: the positions in memory are those a successful write would
\* have left, the size and average entry price of the symbol are those of
\* the fill applied to the position before, and the call does not raise
C30_FailedWriteStillApplies ==
    WriteFailed =>
        /\ ~ev.raised
        /\ positions = AsIfPersisted
        /\ LET applied == UpdatePositionOnFill(last.before, last.sym,
                              LastFill.fq, LastFill.fp, last.ts)[last.sym]
           IN  /\ LastPos.quantity = applied.quantity
               /\ LastPos.average_entry_price = applied.average_entry_price

\* a valid fill has changed the position of its symbol although the write
\* failed and left the store without the key
C30_Witness ==
    /\ WriteFailed
    /\ last.valid
    /\ LastPos.quantity # 0
    /\ last.sym \notin DOMAIN redis.store

\* the fields of a Position that a restart has to bring back
SameHolding(p, q) ==
    /\ p.quantity = q.quantity
    /\ p.average_entry_price = q.average_entry_price
    /\ p.realized_pnl = q.realized_pnl

Resolved == ev.kind = "resolve" /\ ev.strategy # NoInstance

\* the name the mapping of the last resolution gives its regime, through
\* "default" when the regime itself has none
MappedStrategy ==
    IF ev.regime \in DOMAIN ev.mapping /\ ev.mapping[ev.regime] # ""
    THEN ev.mapping[ev.regime]
    ELSE ev.mapping["default"]

\* C32: a successful resolution returns the active instance of the symbol,
\* which is of the strategy mapped to the regime: a new one when the symbol
\* had none, the one it had when that is of the mapped strategy, and a new
\* one replacing it otherwise
C32_ResolveCreatesKeepsReplaces ==
    Resolved =>
        /\ active_strategy_instances[ev.sym] = ev.strategy
        /\ ev.strategy.cls = MappedStrategy
        /\ ev.strategy_before = NoInstance => ev.strategy.gen = 1
        /\ (ev.strategy_before # NoInstance
              /\ ev.strategy_before.cls = MappedStrategy)
               => ev.strategy = ev.strategy_before
        /\ (ev.strategy_before # NoInstance
              /\ ev.strategy_before.cls # MappedStrategy)
               => ev.strategy.gen = ev.strategy_before.gen + 1

\* a resolution has replaced the instance of a symbol by one of another
\* strategy because the mapping of the regime had changed
C32_Witness ==
    /\ Resolved
    /\ ev.strategy_before # NoInstance
    /\ ev.strategy_before.cls # ev.strategy.cls
    /\ ev.strategy.gen = 2

\* C33: the entry of a symbol is there once a fill for the symbol has been
\* handled and not before the first fill, no step removes an entry, also not
\* the step that makes its position flat, and no step changes the realized
\* PnL of a position that is flat
C33_EntriesNeverDeleted ==
    /\ [](nfills = 0 => positions = << >>)
    /\ [](ev.kind = "fill" => ev.sym \in DOMAIN positions)
    /\ [][\A s \in DOMAIN positions :
             /\ s \in DOMAIN positions'
             /\ positions[s].quantity = 0
                   => positions'[s].realized_pnl = positions[s].realized_pnl]_vars

\* a fill has made an open position flat and its entry is still there, next
\* to the entry of a symbol whose first fill came later
C33_Witness ==
    /\ ev.kind = "fill"
    /\ last.valid
    /\ last.oldq # 0
    /\ last.sym \in DOMAIN positions
    /\ LastPos.quantity = 0
    /\ LastPos.average_entry_price = Zero

\* the mark of s is present and finite
ValidMark(s) == IsNum(latest_prices[s])

\* what the position of s adds to the value: quantity * mark with a valid
\* mark, nothing without one or without an entry
Contribution(s) ==
    IF s \in DOMAIN positions /\ ValidMark(s)
    THEN RatMul(RatInt(positions[s].quantity), RatOf(latest_prices[s]))
    ELSE Zero

\* C34: get_total_portfolio_value returns a number, the sum of quantity *
\* mark over the symbols whose mark is present and finite; a missing, NaN or
\* infinite mark adds nothing and a flat position adds 0
C34_PortfolioValue ==
    Returned("get_total_portfolio_value") =>
        /\ IsNum(ev.result)
        /\ RatEq(RatOf(ev.result),
                 RatAdd(Contribution(TradingSymbols[1]),
                        Contribution(TradingSymbols[2])))

\* a value has been returned for a store with a long and a short position,
\* one with a valid mark and one with a NaN or infinite mark
C34_Witness ==
    /\ Returned("get_total_portfolio_value")
    /\ \E s \in DOMAIN positions :
          positions[s].quantity > 0 /\ ValidMark(s)
    /\ \E s \in DOMAIN positions :
          /\ positions[s].quantity < 0
          /\ (IsNaN(latest_prices[s]) \/ IsInf(latest_prices[s]))
    /\ ~RatEq(RatOf(ev.result), Zero)

\* the last cycle has handed a signal to order_executor.execute_signal
Submitted == ev.kind = "cycle" /\ ev.submitted

\* C35: every signal a trade cycle hands to execute_signal has action BUY or
\* SELL, a quantity above zero and, when it has a price, a price above zero,
\* both as formatted; a quantity or a formatted price of zero or below is
\* never submitted
C35_SubmittedIsPositive ==
    Submitted =>
        /\ ev.action \in {"BUY", "SELL"}
        /\ IsNum(ev.value) /\ ev.value.n > 0
        /\ ~IsNone(ev.price) => (IsNum(ev.price) /\ ev.price.n > 0)

\* a limit order has been submitted with a formatted quantity and price
C35_Witness ==
    /\ Submitted
    /\ ev.order_type = "LIMIT"
    /\ IsNum(ev.value)
    /\ IsNum(ev.price)
    /\ ev.outcome = "submitting"

\* available_capital * capital_percentage / current_price of the last call
\* of get_trade_quantity, for a finite current_price above zero
CapitalQuantity ==
    RatDiv(RatMul(RatOf(ev.capital), RatOf(ev.percentage)), RatOf(ev.price))

\* the capital-based quantity rounded down to the amount step of the market,
\* the quantity itself when the market has no step
RoundedDown ==
    IF AmountStep > 0
    THEN RatInt(TruncToStep(CapitalQuantity, AmountStep))
    ELSE CapitalQuantity

\* the rounded quantity meets the minimum amount and the minimum cost of
\* the market
MeetsMinimums ==
    /\ (ev.market.present /\ IsNum(ev.market.min_amount))
           => RatLessEq(RatOf(ev.market.min_amount), RoundedDown)
    /\ (ev.market.present /\ IsNum(ev.market.min_cost))
           => RatLessEq(RatOf(ev.market.min_cost),
                        RatMul(RoundedDown, RatOf(ev.price)))

\* C36: get_trade_quantity returns 0.0 when current_price <= 0; for a price
\* above zero and a capital that is not negative it returns the quantity
\* available_capital * capital_percentage / current_price rounded down to
\* the amount precision of the symbol when that meets the minimum amount
\* and the minimum cost, and 0.0 when it does not; the result never exceeds
\* the unrounded quantity
C36_TradeQuantity ==
    Returned("get_trade_quantity") =>
        /\ (IsNum(ev.price) /\ ev.price.n <= 0) => ev.result = Num(0)
        /\ (IsNum(ev.price) /\ ev.price.n > 0 /\ ev.capital.n >= 0)
               => /\ IsNum(ev.result)
                  /\ RatEq(RatOf(ev.result),
                           IF MeetsMinimums THEN RoundedDown ELSE Zero)
                  /\ RatLessEq(RatOf(ev.result), CapitalQuantity)

\* the symbols whose position has a nonzero size
OpenSymbols == {s \in DOMAIN positions : positions[s].quantity # 0}

\* C37: under every interleaving of the trade cycles of different symbols
\* the number of symbols with a nonzero position opened through validated
\* orders never exceeds max_open_positions: the count validate_trade reads
\* is not made stale by a fill of another symbol validated earlier and
\* applied later
C37_OpenPositionsBounded ==
    Cardinality(OpenSymbols) <= Config.max_open_positions

\* validate_trade has just returned a BUY or SELL signal that has a stop-loss
ReturnedWithStop ==
    /\ Traded
    /\ IsNum(ev.value)
    /\ ev.returned # NoSignal
    /\ IsNum(ev.returned.stop_loss_price)

\* C38: every BUY/SELL signal with a stop-loss that validate returns has
\* |price - stop_loss_price| * quantity <= portfolio_value *
\* max_risk_per_trade_pct, for every portfolio value passed in, a value of
\* zero or below included
C38_ReturnedRiskWithinLimit ==
    ReturnedWithStop =>
        RatLessEq(RatMul(LastRiskPerUnit,
                         RatAbs(RatOf(ev.returned.quantity))),
                  LastAllowedRisk)

\* C39: no order is submitted while trading is halted: from the observation
\* that sets the halt flag until the observation that clears it no trade
\* cycle of any symbol submits an order; a cycle that finds the flag set
\* after observing its own portfolio value ends rejected
C39_NoSubmitWhileHalted ==
    /\ Submitted => ~risk.is_trading_halted
    /\ (ev.kind = "cycle" /\ risk.is_trading_halted) =>
           (ev.outcome = "rejected" /\ ~ev.changed)

\* a cycle with a BUY or SELL signal has run on a started engine while
\* trading was halted and a position was held, and has been rejected
C39_Witness ==
    /\ ev.kind = "cycle"
    /\ ev.action \in {"BUY", "SELL"}
    /\ ev.risk_before.is_trading_halted
    /\ risk.is_trading_halted
    /\ executor.is_initialized
    /\ \E s \in DOMAIN positions : positions[s].quantity # 0
    /\ ev.outcome = "rejected"

\* x is a positive finite number
ValidPrice(x) == IsNum(x) /\ x.n > 0

\* the update carries a valid price: a book whose best bid and best ask are
\* positive finite numbers or a last trade that is one
CarriesValidPrice(data) ==
    \/ ValidPrice(data.bid) /\ ValidPrice(data.ask)
    \/ ValidPrice(data.last_trade)

\* C40: each recorded latest price of a symbol is a positive finite number:
\* an update whose best bid/ask or last trade is missing, NaN, infinite or
\* not positive leaves the recorded price of the symbol as it was, and no
\* update changes the recorded price of another symbol
C40_MarksPositiveFinite ==
    /\ \A s \in Symbols :
           IsNone(latest_prices[s]) \/ ValidPrice(latest_prices[s])
    /\ Updated =>
           \A s \in Symbols :
               latest_prices[s] # ev.prices_before[s]
                   => (s = ev.sym /\ CarriesValidPrice(ev.data))
====
